---- MODULE Spec2Model ----
(***************************************************************************)
(* muxmon launcher (src/launcher.py): the grid planner, the pane tree      *)
(* builder, the session reconciler and the live reflow gate.               *)
(*                                                                         *)
(* Real numbers of the planner are fixed-point integers: a ratio is a pair *)
(* <<numerator, denominator>>, a score is an integer in units of           *)
(* 1/LnScale.  Aspect thresholds are integers in hundredths.               *)
(***************************************************************************)
EXTENDS Integers, Sequences, FiniteSets, TLC

\* ------------------------------------------------------------------ bounds
MaxCount == 32
MaxMon == 3
MaxLaunches == 2
MaxEnvKills == 1
MaxTicks == 2
MaxHooks == 1
MaxFires == 3

\* ------------------------------------------------------- program constants
AUTO_GEOMETRY_STACK_MAX_ASPECT_DEFAULT == 95
AUTO_GEOMETRY_TALL_MAX_ASPECT_DEFAULT == 125
AUTO_GEOMETRY_WIDE_MIN_ASPECT_DEFAULT == 240
LIVE_REFLOW_MIN_INTERVAL_MS_DEFAULT == 180

HOLD_CMD == <<"hold">>
BLANK_CMD == <<"blank">>

GRID_LAYOUTS ==
    {"grid", "auto", "auto-geometry", "auto-square", "auto-wide", "auto-tall",
     "square", "wide", "tall"}

LnScale == 100 * 100
EmptyPenaltyUnit == 1200
LinePenalty == 10000
ImbalancePenaltyUnit == 2200
CellAspectFloor == 11500
CellShapeFactorTenths == 12

\* ------------------------------------------------------------- arithmetic
Max2(a, b) == IF a >= b THEN a ELSE b
Min2(a, b) == IF a <= b THEN a ELSE b

RECURSIVE GCD(_, _)
GCD(a, b) == IF b = 0 THEN a ELSE GCD(b, a % b)

\* math.ceil(count / cols) for positive integers
CeilDiv(a, b) == (a + b - 1) \div b

\* ratios <<n, d>> with d > 0
RatLE(a, b) == a[1] * b[2] <= b[1] * a[2]
RatMax(a, b) == IF RatLE(b, a) THEN a ELSE b
RatMin(a, b) == IF RatLE(a, b) THEN a ELSE b
RatReduce(a) == LET g == GCD(a[1], a[2]) IN <<a[1] \div g, a[2] \div g>>

\* ln 2 in units of 1/LnScale
Ln2Scaled == (69315 * LnScale) \div 100000

\* ln(p/q) in units of 1/LnScale for p >= q > 0: halve the argument until it
\* is below 2, then 2*atanh((p-q)/(p+q)) by its series
RECURSIVE LnGE1(_, _)
LnGE1(p, q) ==
    IF p >= 2 * q THEN Ln2Scaled + LnGE1(p, 2 * q)
    ELSE LET y  == ((p - q) * LnScale) \div (p + q)
             y2 == (y * y) \div LnScale
             t3 == (y * y2) \div LnScale
             t5 == (t3 * y2) \div LnScale
             t7 == (t5 * y2) \div LnScale
             t9 == (t7 * y2) \div LnScale
         IN  2 * (y + t3 \div 3 + t5 \div 5 + t7 \div 7 + t9 \div 9)

\* abs(math.log(x)) for the ratio x = <<n, d>>
AbsLn(x) ==
    LET r == RatReduce(x)
    IN  LnGE1(Max2(r[1], r[2]), Min2(r[1], r[2]))

\* Python round(100 / remaining): nearest integer, a tie to the even one
Round100Div(r) ==
    LET q == 100 \div r
        m == 100 % r
    IN  IF 2 * m < r THEN q
        ELSE IF 2 * m > r THEN q + 1
        ELSE IF q % 2 = 0 THEN q ELSE q + 1

RECURSIVE SumSeq(_)
SumSeq(s) == IF s = <<>> THEN 0 ELSE Head(s) + SumSeq(Tail(s))

RECURSIVE MaxSeq(_)
MaxSeq(s) == IF Len(s) = 1 THEN s[1] ELSE Max2(Head(s), MaxSeq(Tail(s)))

RECURSIVE MinSeq(_)
MinSeq(s) == IF Len(s) = 1 THEN s[1] ELSE Min2(Head(s), MinSeq(Tail(s)))

\* ---------------------------------------------------------------- planner
\* _normalize_layout
NormalizeLayout(layout) ==
    CASE layout = "grid" -> "square"
      [] layout = "wide" -> "auto-wide"
      [] layout = "tall" -> "auto-tall"
      [] OTHER -> layout

\* term_cols / max(1.0, float(term_rows))
TermAspect(term_cols, term_rows) == <<term_cols, Max2(1, term_rows)>>

TargetColRowRatioAsAuto(layout, term_aspect) ==
    RatMax(<<6, 10>>, RatMin(<<3, 1>>, term_aspect))

\* _target_col_row_ratio
TargetColRowRatio(layout, term_aspect) ==
    CASE layout = "auto" ->
           RatMax(<<6, 10>>, RatMin(<<3, 1>>, term_aspect))
      [] layout \in {"square", "auto-square"} -> <<1, 1>>
      [] layout = "auto-wide" ->
           RatMax(<<12, 10>>,
                  RatMin(<<4, 1>>, <<term_aspect[1] * 14, term_aspect[2] * 10>>))
      [] layout = "auto-tall" ->
           RatMax(<<35, 100>>,
                  RatMin(<<1, 1>>, <<term_aspect[1] * 7, term_aspect[2] * 10>>))
      [] OTHER -> <<1, 1>>

\* the sub-target auto-geometry picks when the stack guard does not fire
ClassifyAutoGeometry(term_aspect, tallMax, wideMin) ==
    IF RatLE(<<wideMin, 100>>, term_aspect) THEN "auto-wide"
    ELSE IF RatLE(term_aspect, <<tallMax, 100>>) THEN "auto-tall"
    ELSE "auto-square"

StackGuardAnyCount(count, term_aspect, stackMax) ==
    RatLE(term_aspect, <<stackMax, 100>>)

\* the stack guard of auto-geometry
StackGuard(count, term_aspect, stackMax) ==
    count >= 3 /\ RatLE(term_aspect, <<stackMax, 100>>)

\* min(cols, remaining) of _row_counts
RowTakeAlwaysCols(cols, remaining) == cols
RowTake(cols, remaining) == Min2(cols, remaining)

RECURSIVE RowCountsLoop(_, _, _)
RowCountsLoop(rows, cols, remaining) ==
    IF rows = 0 THEN <<>>
    ELSE LET take == RowTake(cols, remaining)
         IN  <<take>> \o RowCountsLoop(rows - 1, cols, remaining - take)

\* _row_counts
RowCounts(count, rows, cols, pad_empty) ==
    IF pad_empty THEN [i \in 1..rows |-> cols]
    ELSE RowCountsLoop(rows, cols, count)

\* rows = math.ceil(count / cols) of one candidate
CandidateRowsFloor(count, cols) == Max2(1, count \div cols)
CandidateRows(count, cols) == CeilDiv(count, cols)

\* one candidate of the scoring loop: [cols, rows, score, empties]
Candidate(cols, count, original_layout, target_ratio, term_aspect, pad_empty) ==
    LET rows == CandidateRows(count, cols)
        empties == rows * cols - count
        ratio == IF cols * 100 < rows THEN <<1, 100>> ELSE <<cols, rows>>
        ratio_penalty ==
            AbsLn(<<ratio[1] * target_ratio[2], ratio[2] * target_ratio[1]>>)
        empty_penalty == empties * EmptyPenaltyUnit
        line_penalty ==
            IF count >= 4 /\ (rows = 1 \/ cols = 1) THEN LinePenalty ELSE 0
        row_counts == RowCounts(count, rows, cols, FALSE)
        imbalance_penalty ==
            IF pad_empty THEN 0
            ELSE (MaxSeq(row_counts) - MinSeq(row_counts)) * ImbalancePenaltyUnit
        cell_aspect ==
            (term_aspect[1] * rows * LnScale) \div (term_aspect[2] * cols)
        cell_shape_penalty ==
            IF original_layout = "auto-geometry" /\ cell_aspect < CellAspectFloor
            THEN ((CellAspectFloor - cell_aspect) * CellShapeFactorTenths) \div 10
            ELSE 0
    IN  [cols |-> cols, rows |-> rows,
         score |-> ratio_penalty + empty_penalty + line_penalty
                   + imbalance_penalty + cell_shape_penalty,
         empties |-> empties]

\* the bound on the error of a fixed-point score: two scores closer than this
\* compare either way
ScoreEps == LnScale \div 1000

ReplacesOnTie(cand, best) ==
    \/ cand.score < best.score
    \/ (cand.score = best.score /\ cand.empties <= best.empties)

\* score < best_score or (score == best_score and empties < best_empty), on the
\* exact values
Replaces(cand, best) ==
    \/ cand.score < best.score
    \/ (cand.score = best.score /\ cand.empties < best.empties)

\* the values `best` may hold after one candidate is compared with it: the
\* comparison of the code where the scores are apart, either outcome where they
\* are within the error of the fixed-point scores
AfterCompare(cand, best) ==
    IF cand.score - best.score <= ScoreEps /\ best.score - cand.score <= ScoreEps
    THEN {cand, best}
    ELSE IF Replaces(cand, best) THEN {cand} ELSE {best}

\* the scoring loop; bests = {} is best = None
RECURSIVE ScoreLoop(_, _, _, _, _, _, _)
ScoreLoop(cols, bests, count, original_layout, target_ratio, term_aspect, pad_empty) ==
    IF cols > count THEN bests
    ELSE LET cand == Candidate(cols, count, original_layout, target_ratio,
                               term_aspect, pad_empty)
         IN  IF bests = {}
             THEN ScoreLoop(cols + 1, {cand}, count, original_layout,
                            target_ratio, term_aspect, pad_empty)
             ELSE ScoreLoop(cols + 1,
                            UNION {AfterCompare(cand, b) : b \in bests},
                            count, original_layout, target_ratio, term_aspect,
                            pad_empty)

\* _plan_grid_dims: the set of <<cols, rows>> it may return
PlanGridDims(count, layout, term_cols, term_rows, pad_empty, th) ==
    LET term_aspect == TermAspect(term_cols, term_rows)
    IN  IF layout = "auto-geometry" /\ StackGuard(count, term_aspect, th[1])
        THEN {<<1, count>>}
        ELSE LET lay == IF layout = "auto-geometry"
                        THEN ClassifyAutoGeometry(term_aspect, th[2], th[3])
                        ELSE layout
                 target_ratio == TargetColRowRatio(lay, term_aspect)
                 bests == ScoreLoop(1, {}, count, layout, target_ratio,
                                    term_aspect, pad_empty)
             IN  {<<b.cols, b.rows>> : b \in bests}

\* the way _plan_grid_dims takes: "stack" when the stack guard returns, else
\* the layout whose target ratio the scoring uses
PlanVia(count, layout, term_cols, term_rows, th) ==
    LET term_aspect == TermAspect(term_cols, term_rows)
    IN  IF layout # "auto-geometry" THEN layout
        ELSE IF StackGuard(count, term_aspect, th[1]) THEN "stack"
        ELSE ClassifyAutoGeometry(term_aspect, th[2], th[3])

\* the scoring loop from candidate `cols` on with `best` so far, every
\* comparison made on the scores as computed here
RECURSIVE BestByRule(_, _, _, _, _, _, _)
BestByRule(cols, best, count, original_layout, target_ratio, term_aspect, pad_empty) ==
    IF cols > count THEN best
    ELSE LET cand == Candidate(cols, count, original_layout, target_ratio,
                               term_aspect, pad_empty)
         IN  BestByRule(cols + 1, IF Replaces(cand, best) THEN cand ELSE best,
                        count, original_layout, target_ratio, term_aspect,
                        pad_empty)

\* _plan_grid_dims with every comparison made on the scores as computed here
PlanByRule(count, layout, term_cols, term_rows, pad_empty, th) ==
    LET term_aspect == TermAspect(term_cols, term_rows)
        via == PlanVia(count, layout, term_cols, term_rows, th)
        target_ratio == TargetColRowRatio(via, term_aspect)
        b == BestByRule(2, Candidate(1, count, layout, target_ratio,
                                     term_aspect, pad_empty),
                        count, layout, target_ratio, term_aspect, pad_empty)
    IN  IF via = "stack" THEN <<1, count>> ELSE <<b.cols, b.rows>>

\* (cols, rows) before a plan is made
NoDims == <<0, 0>>

\* ------------------------------------------------------------ multiplexer
\* a pane: [id, top, left, h, w, cmd]; a window's panes are a sequence in the
\* window's own order (a split puts the new pane right after its target)

RECURSIVE IndexOfPane(_, _, _)
IndexOfPane(panes, id, i) ==
    IF i > Len(panes) THEN 0
    ELSE IF panes[i].id = id THEN i ELSE IndexOfPane(panes, id, i + 1)

HasPane(panes, id) == IndexOfPane(panes, id, 1) # 0

\* new-session -d -x term_cols -y term_rows: one pane filling the window
FirstPane(term_cols, term_rows, cmd) ==
    [id |-> 0, top |-> 0, left |-> 0, h |-> term_rows, w |-> term_cols,
     cmd |-> cmd]

\* the size of the new pane of a split: pct percent of the target (pct = 0: no
\* -p, half of it), at least one cell and leaving the target one cell and the
\* border
SplitNewSize(cur, pct) ==
    LET want == IF pct = 0 THEN ((cur + 1) \div 2) - 1 ELSE (cur * pct) \div 100
    IN  Max2(1, Min2(cur - 2, want))

SplitHasRoom(panes, target, direction) ==
    LET i == IndexOfPane(panes, target, 1)
    IN  /\ i # 0
        /\ (IF direction = "-v" THEN panes[i].h ELSE panes[i].w) >= 3

\* split-window -d direction [-p pct] -t target cmd: the target keeps its
\* place and shrinks, the new pane lies below it (-v) or right of it (-h)
SplitPane(panes, target, direction, pct, new_id, cmd) ==
    LET i == IndexOfPane(panes, target, 1)
        t == panes[i]
        cur == IF direction = "-v" THEN t.h ELSE t.w
        size2 == SplitNewSize(cur, pct)
        size1 == cur - 1 - size2
        old == IF direction = "-v" THEN [t EXCEPT !.h = size1]
               ELSE [t EXCEPT !.w = size1]
        new == IF direction = "-v"
               THEN [id |-> new_id, top |-> t.top + size1 + 1, left |-> t.left,
                     h |-> size2, w |-> t.w, cmd |-> cmd]
               ELSE [id |-> new_id, top |-> t.top, left |-> t.left + size1 + 1,
                     h |-> t.h, w |-> size2, cmd |-> cmd]
    IN  SubSeq(panes, 1, i - 1) \o <<old, new>> \o SubSeq(panes, i + 1, Len(panes))

\* rows and columns of the multiplexer's tiled layout for n panes
RECURSIVE TiledDims(_, _, _)
TiledDims(n, rows, cols) ==
    IF rows * cols >= n THEN <<rows, cols>>
    ELSE IF (rows + 1) * cols >= n THEN <<rows + 1, cols>>
    ELSE TiledDims(n, rows + 1, cols + 1)

\* select-layout name: the panes keep their order, identity and command and
\* are laid out again over the window
Relayout(name, panes, size) ==
    LET n == Len(panes)
        W == size[1]
        H == size[2]
        td == TiledDims(n, 1, 1)
        eh == Max2(1, (H - (n - 1)) \div n)
        ew == Max2(1, (W - (n - 1)) \div n)
        th == Max2(1, (H - (td[1] - 1)) \div td[1])
        tw == Max2(1, (W - (td[2] - 1)) \div td[2])
    IN  [i \in 1..n |->
           CASE name = "even-vertical" ->
                  [panes[i] EXCEPT !.top = (i - 1) * (eh + 1), !.left = 0,
                                   !.h = eh, !.w = W]
             [] name = "even-horizontal" ->
                  [panes[i] EXCEPT !.top = 0, !.left = (i - 1) * (ew + 1),
                                   !.h = H, !.w = ew]
             [] OTHER ->
                  [panes[i] EXCEPT !.top = ((i - 1) \div td[2]) * (th + 1),
                                   !.left = ((i - 1) % td[2]) * (tw + 1),
                                   !.h = th, !.w = tw]]

\* key=lambda p: (p.top, p.left)
TopLeftLELeftFirst(p, q) == p.left < q.left \/ (p.left = q.left /\ p.top <= q.top)

TopLeftLE(p, q) == p.top < q.top \/ (p.top = q.top /\ p.left <= q.left)

RECURSIVE InsertSorted(_, _)
InsertSorted(p, s) ==
    IF s = <<>> THEN <<p>>
    ELSE IF TopLeftLE(Head(s), p) THEN <<Head(s)>> \o InsertSorted(p, Tail(s))
    ELSE <<p>> \o s

\* sorted(panes, key=lambda p: (p.top, p.left)): stable
RECURSIVE SortedByTopLeft(_)
SortedByTopLeft(panes) ==
    IF panes = <<>> THEN <<>>
    ELSE InsertSorted(panes[Len(panes)],
                      SortedByTopLeft(SubSeq(panes, 1, Len(panes) - 1)))

PaneIds(panes) == [i \in 1..Len(panes) |-> panes[i].id]

SplitPctFloor(remaining) == Max2(1, Min2(99, 100 \div remaining))

\* pct = max(1, min(99, round(100 / remaining)))
SplitPct(remaining) == Max2(1, Min2(99, Round100Div(remaining)))

\* _split_equal: the split-window calls it issues, in order, for remaining
\* in range(parts, 1, -1); none for parts <= 1
RECURSIVE SplitEqualFrom(_, _, _)
SplitEqualFrom(target_pane, direction, remaining) ==
    IF remaining <= 1 THEN <<>>
    ELSE <<[target |-> target_pane, direction |-> direction,
            pct |-> SplitPct(remaining)]>>
         \o SplitEqualFrom(target_pane, direction, remaining - 1)

SplitEqual(target_pane, direction, parts) ==
    IF parts <= 1 THEN <<>> ELSE SplitEqualFrom(target_pane, direction, parts)

\* the product of two ratios, in lowest terms
RatMul(a, b) ==
    LET g1 == GCD(a[1], b[2])
        g2 == GCD(b[1], a[2])
    IN  RatReduce(<<(a[1] \div g1) * (b[1] \div g2),
                    (a[2] \div g2) * (b[2] \div g1)>>)

\* the regions a sequence of split-window calls on one target leaves, as
\* shares of the target's size, when every split gives the new pane exactly
\* pct percent of the target and the target keeps the rest: the new panes in
\* the order of the calls, then the target
RECURSIVE ExactRegions(_, _, _)
ExactRegions(size, calls, j) ==
    IF j > Len(calls) THEN <<size>>
    ELSE <<RatMul(size, <<calls[j].pct, 100>>)>>
         \o ExactRegions(RatMul(size, <<100 - calls[j].pct, 100>>), calls, j + 1)

\* _monitor_cmd(name, extra_args)
MonitorCmd(name) == <<"monitor", name>>

\* ------------------------------------------------------------------ state
VARIABLES
    plan,       \* one call of the planner and of _row_counts: inputs and results
    tmux,       \* the multiplexer's state for the session name
    L,          \* the launcher process: its position, arguments and locals
    launches,   \* launches started so far
    env_kills,  \* panes and sessions ended from outside so far
    actor,      \* who took the last step: "launcher", "hook", "env" or "none"
    clock,      \* the wall clock, in ticks
    ticks,      \* advances of the clock so far
    gate,       \* the session's reflow stamp file
    H,          \* the --internal-reflow processes the hooks have started
    fires,      \* hook events so far
    R,          \* a second launcher process for the same session name
    O           \* a reflow invocation for another session name, and its stamp

planVars == <<plan>>
gateVars == <<clock, ticks, gate, H, fires>>
sysVars == <<tmux, L, launches, env_kills, actor, gateVars, R, O>>
vars ==
    <<plan, tmux, L, launches, env_kills, actor, clock, ticks, gate, H, fires,
      R, O>>

\* ------------------------------------------------ session and launcher
HookNames == <<"client-resized", "client-attached">>

NoHook == [set |-> FALSE, layout |-> "", th |-> <<0, 0, 0>>, interval |-> 0]

HookCommandDefaults(layout, th, interval) ==
    [set |-> TRUE, layout |-> layout,
     th |-> <<AUTO_GEOMETRY_STACK_MAX_ASPECT_DEFAULT,
              AUTO_GEOMETRY_TALL_MAX_ASPECT_DEFAULT,
              AUTO_GEOMETRY_WIDE_MIN_ASPECT_DEFAULT>>,
     interval |-> LIVE_REFLOW_MIN_INTERVAL_MS_DEFAULT]

\* the run-shell command _configure_live_reflow_hook registers
HookCommand(layout, th, interval) ==
    [set |-> TRUE, layout |-> layout, th |-> th, interval |-> interval]

OptionNames ==
    {"status", "window-size", "aggressive-resize", "pane-border-status",
     "pane-border-lines", "pane-border-style", "pane-active-border-style",
     "pane-border-indicators"}

\* the set-option / set-window-option calls of _apply_session_options, in
\* order; the three colours are their flags' values
OptionCalls(pane_borders, active_pane_highlight) ==
    << <<"status", "off">>, <<"window-size", "latest">>,
       <<"aggressive-resize", "on">>, <<"pane-border-status", "off">>,
       <<"pane-border-lines", "single">> >>
    \o (IF pane_borders
        THEN << <<"pane-border-style", "pane_border_color">> >>
             \o (IF active_pane_highlight
                 THEN << <<"pane-active-border-style", "pane_active_border_color">>,
                         <<"pane-border-indicators", "colour">> >>
                 ELSE << <<"pane-active-border-style", "pane_border_color">>,
                         <<"pane-border-indicators", "off">> >>)
        ELSE << <<"pane-border-style", "pane_muted_border_color">>,
                <<"pane-active-border-style", "pane_muted_border_color">>,
                <<"pane-border-indicators", "off">> >>)

\* no session of this name
NoSession ==
    [exists |-> FALSE, panes |-> <<>>, next_id |-> 0, active |-> 0,
     layout |-> "none", size |-> <<0, 0>>,
     hooks |-> [i \in 1..2 |-> NoHook],
     opts |-> [o \in OptionNames |-> "default"]]

\* the session new-session creates
NewSessionState(term_cols, term_rows, cmd) ==
    [NoSession EXCEPT !.exists = TRUE,
                      !.panes = <<FirstPane(term_cols, term_rows, cmd)>>,
                      !.next_id = 1,
                      !.size = <<term_cols, term_rows>>]

\* list-panes -F "#{pane_id} #{pane_top} #{pane_left}" as PaneInfo records
ListPanes(panes) ==
    [i \in 1..Len(panes) |->
       [pane_id |-> panes[i].id, top |-> panes[i].top, left |-> panes[i].left]]

\* the outcomes of a multiplexer call: it can succeed only if its target is
\* there, and it can always fail
Outcomes(possible) == IF possible THEN {TRUE, FALSE} ELSE {FALSE}

LinearLayouts == {"vertical", "horizontal", "tiled"}

LayoutMapAllTiled(layout) == "tiled"

\* layout_map of _launch_linear
LayoutMap(layout) ==
    CASE layout = "vertical" -> "even-vertical"
      [] layout = "horizontal" -> "even-horizontal"
      [] OTHER -> "tiled"

TargetTmuxLayoutRowsFirst(layout, pane_count, term_cols, term_rows, th) ==
    LET nl == NormalizeLayout(layout)
    IN  IF nl \in LinearLayouts THEN {LayoutMap(nl)}
        ELSE IF nl \in GRID_LAYOUTS
        THEN {IF d[2] <= 1 THEN "even-horizontal"
              ELSE IF d[1] <= 1 THEN "even-vertical"
              ELSE "tiled" :
                d \in PlanGridDims(pane_count, nl, term_cols, term_rows, TRUE, th)}
        ELSE {"tiled"}

\* _target_tmux_layout: the named layouts it may return
TargetTmuxLayout(layout, pane_count, term_cols, term_rows, th) ==
    LET nl == NormalizeLayout(layout)
    IN  IF nl \in LinearLayouts THEN {LayoutMap(nl)}
        ELSE IF nl \in GRID_LAYOUTS
        THEN {IF d[1] <= 1 THEN "even-vertical"
              ELSE IF d[2] <= 1 THEN "even-horizontal"
              ELSE "tiled" :
                d \in PlanGridDims(pane_count, nl, term_cols, term_rows, TRUE, th)}
        ELSE {"tiled"}

\* the monitors of the registry, in a request order
RequestOrder == <<"cpu", "gpu", "memory", "net", "storage">>

\* arguments of launch()
MonitorLists == {SubSeq(RequestOrder, 1, n) : n \in 0..MaxMon}
LaunchLayouts == {"vertical", "horizontal", "tiled", "grid", "auto-geometry"}
LaunchGeometries == {<<20, 40>>}
BorderFlags == {<<TRUE, FALSE>>, <<FALSE, FALSE>>}
FreshBorderFlags == {<<TRUE, FALSE>>}
DefaultThresholds ==
    <<AUTO_GEOMETRY_STACK_MAX_ASPECT_DEFAULT,
      AUTO_GEOMETRY_TALL_MAX_ASPECT_DEFAULT,
      AUTO_GEOMETRY_WIDE_MIN_ASPECT_DEFAULT>>

\* the launcher before launch() is called
IdleL ==
    [pc |-> "idle", mode |-> "none",
     monitors |-> <<>>, layout |-> "", pad_empty |-> FALSE,
     live_reflow |-> FALSE, borders |-> <<TRUE, FALSE>>, geom |-> <<0, 0>>,
     th |-> DefaultThresholds, interval |-> 0,
     cols |-> 0, rows |-> 0, row_counts |-> <<>>, total_slots |-> 0,
     root_pane |-> 0, row_roots |-> <<>>, panes |-> <<>>, commands |-> <<>>,
     k |-> 0, rem |-> 0, pane_count |-> 0, size |-> <<0, 0>>,
     cmds |-> <<>>, exc |-> "none", at |-> "none", result |-> "none",
     unset_failed |-> FALSE, err |-> "none", name_taken |-> FALSE]

\* the positions inside the try block of launch()
BuildPcs ==
    {"new_session", "opts", "lin_split", "lin_tiled", "lin_layout",
     "list_root", "split_rows", "list_rows", "split_cols", "list_final",
     "respawn", "select_pane"}

InTryAnyMode(l) == l.pc \in BuildPcs
InTry(l) == l.mode = "fresh" /\ l.pc \in BuildPcs

\* except Exception: the exceptions it catches
CaughtByExceptOnlyCalled(exc) == exc = "CalledProcessError"
CaughtByExcept(exc) ==
    exc \in {"CalledProcessError", "RuntimeError", "ValueError", "IndexError"}

\* an exception raised at the launcher's position `at`: into the except clause
\* of the try block, or out of launch()
Raise(l, exc) ==
    IF InTry(l) /\ CaughtByExcept(exc)
    THEN [l EXCEPT !.pc = "teardown", !.exc = exc, !.at = l.pc]
    ELSE [l EXCEPT !.pc = "done", !.exc = exc, !.at = l.pc, !.result = exc]

Issue(l, cmd) == [l EXCEPT !.cmds = Append(l.cmds, cmd)]

\* a launcher step: the launcher and the session change, nothing else
LauncherStep(l, t) ==
    /\ L' = l
    /\ tmux' = t
    /\ actor' = "launcher"
    /\ UNCHANGED <<gateVars, R, O, plan, launches, env_kills>>

\* the arguments every launch() keeps
LaunchArgsWith(layout, live_reflow, borders, th, interval) ==
    [IdleL EXCEPT !.cmds = <<"has-session">>,
                  !.layout = layout,
                  !.live_reflow = live_reflow,
                  !.borders = borders,
                  !.th = th,
                  !.interval = interval]

\* with the default thresholds and minimum interval
LaunchArgs(layout, live_reflow, borders) ==
    LaunchArgsWith(layout, live_reflow, borders, DefaultThresholds,
                   LIVE_REFLOW_MIN_INTERVAL_MS_DEFAULT)

\* <<thresholds, minimum interval>> of a launch: the defaults, or other
\* thresholds main() accepts with --live-reflow-min-interval-ms 0
DefaultReflowFlags ==
    {<<DefaultThresholds, LIVE_REFLOW_MIN_INTERVAL_MS_DEFAULT>>}
ReflowFlags == DefaultReflowFlags \cup {<<<<40, 90, 350>>, 0>>}

\* launch() when _session_exists(session): the reconcile branch, with --layout,
\* the border flags and --live-reflow from the given sets; without
\* --live-reflow the layout, the thresholds and the interval are not used
LaunchExistingArgs(layouts, flags, reflows, reflow_flags) ==
    /\ L.pc = "idle"
    /\ launches < MaxLaunches
    /\ tmux.exists
    /\ \E live_reflow \in reflows, borders \in flags :
       \E layout \in IF live_reflow THEN layouts ELSE {"auto-geometry"},
          rf \in IF live_reflow THEN reflow_flags ELSE DefaultReflowFlags :
         L' = [LaunchArgsWith(layout, live_reflow, borders, rf[1], rf[2]) EXCEPT
                 !.mode = "reconcile", !.pc = "opts"]
    /\ launches' = launches + 1
    /\ actor' = "launcher"
    /\ UNCHANGED <<gateVars, R, O, plan, tmux, env_kills>>

LaunchExistingWith(layouts, flags, reflows) ==
    LaunchExistingArgs(layouts, flags, reflows, DefaultReflowFlags)

LaunchExisting ==
    LaunchExistingArgs(LaunchLayouts, BorderFlags, BOOLEAN, ReflowFlags)

\* launch() when there is no session: sys.exit(1) without monitors, else the
\* plan of a fresh build, inside the try block; the launcher after it, for
\* each plan the planner may return
FreshLaunches(monitors, layout, pad_empty, live_reflow, borders, geom, th, interval) ==
    LET base == LaunchArgsWith(layout, live_reflow, borders, th, interval)
        fresh == [base EXCEPT !.mode = "fresh", !.monitors = monitors,
                              !.pad_empty = pad_empty, !.geom = geom,
                              !.pc = "new_session"]
        nl == NormalizeLayout(layout)
    IN  IF monitors = <<>>
        THEN {[base EXCEPT !.pc = "done", !.result = "SystemExit"]}
        ELSE IF nl \in LinearLayouts
        THEN {fresh}
        ELSE IF nl \in GRID_LAYOUTS
        THEN {LET rc == RowCounts(Len(monitors), d[2], d[1], pad_empty)
              IN  [fresh EXCEPT !.cols = d[1], !.rows = d[2],
                                !.row_counts = rc,
                                !.total_slots = SumSeq(rc)] :
                d \in PlanGridDims(Len(monitors), nl, geom[1], geom[2],
                                   pad_empty, th)}
        ELSE {Raise(fresh, "ValueError")}

LaunchFresh ==
    /\ L.pc = "idle"
    /\ launches < MaxLaunches
    /\ ~tmux.exists
    /\ \E monitors \in MonitorLists, layout \in LaunchLayouts,
          pad_empty \in BOOLEAN, live_reflow \in BOOLEAN,
          borders \in FreshBorderFlags, geom \in LaunchGeometries :
         L' \in FreshLaunches(monitors, layout, pad_empty, live_reflow, borders,
                              geom, DefaultThresholds,
                              LIVE_REFLOW_MIN_INTERVAL_MS_DEFAULT)
    /\ launches' = launches + 1
    /\ actor' = "launcher"
    /\ UNCHANGED <<gateVars, R, O, plan, tmux, env_kills>>

\* the launcher's process ends with its last step: nothing else runs between
\* that step and Exit
LauncherEnding == L.pc = "done"

\* the launcher process is gone: attached, or ended by an exception
Exit ==
    /\ L.pc = "done"
    /\ L' = IdleL
    /\ actor' = "launcher"
    /\ UNCHANGED <<gateVars, R, O, plan, tmux, launches, env_kills>>

IsLinear(l) == NormalizeLayout(l.layout) \in LinearLayouts

\* new-session -d -x term_cols -y term_rows -s session: the first monitor
\* (_launch_linear) or the placeholder (_launch_grid) in the first pane
NewSession ==
    /\ L.pc = "new_session"
    /\ \E ok \in Outcomes(~tmux.exists) :
         LET l == Issue(L, "new-session")
             cmd == IF IsLinear(L) THEN MonitorCmd(L.monitors[1]) ELSE HOLD_CMD
         IN  IF ok
             THEN LauncherStep([l EXCEPT !.pc = "opts"],
                               NewSessionState(L.geom[1], L.geom[2], cmd))
             ELSE LauncherStep(Raise([l EXCEPT !.name_taken = tmux.exists],
                                     "CalledProcessError"), tmux)

AfterOptionsHookFirst(l) == [l EXCEPT !.pc = "hook", !.k = 1]

\* where launch() goes on after _apply_session_options
AfterOptions(l) ==
    IF l.mode = "reconcile" THEN [l EXCEPT !.pc = "hook", !.k = 1]
    ELSE IF IsLinear(l)
    THEN IF Len(l.monitors) >= 2 THEN [l EXCEPT !.pc = "lin_split", !.k = 2]
         ELSE [l EXCEPT !.pc = "lin_layout"]
    ELSE [l EXCEPT !.pc = "list_root"]

\* the options after the first j calls of _apply_session_options succeeded
RECURSIVE OptionsAfter(_, _, _)
OptionsAfter(opts, calls, j) ==
    IF j = 0 THEN opts
    ELSE [OptionsAfter(opts, calls, j - 1) EXCEPT ![calls[j][1]] = calls[j][2]]

RECURSIVE IssueTimes(_, _, _)
IssueTimes(l, cmd, n) == IF n = 0 THEN l ELSE IssueTimes(Issue(l, cmd), cmd, n - 1)

\* _apply_session_options: its set-option / set-window-option calls in order;
\* the first j succeed, then all are done, or call j+1 fails, or the user
\* interrupts
SetOptions ==
    /\ L.pc = "opts"
    /\ LET calls == OptionCalls(L.borders[1], L.borders[2])
           n == Len(calls)
       IN  \E j \in 0..(IF tmux.exists THEN n ELSE 0),
              end \in {"done", "CalledProcessError", "KeyboardInterrupt"} :
             /\ end = "done" <=> j = n
             /\ LET t == [tmux EXCEPT !.opts = OptionsAfter(tmux.opts, calls, j)]
                IN  CASE end = "done" ->
                           LauncherStep(AfterOptions(IssueTimes(L, "set-option", n)),
                                        t)
                      [] end = "CalledProcessError" ->
                           LauncherStep(Raise(IssueTimes(L, "set-option", j + 1),
                                              end), t)
                      [] OTHER ->
                           LauncherStep(Raise(IssueTimes(L, "set-option", j), end),
                                        t)

\* where _launch_linear goes on after the split of monitor k
AfterLinSplit(l) ==
    IF l.k < Len(l.monitors) THEN [l EXCEPT !.pc = "lin_split", !.k = l.k + 1]
    ELSE [l EXCEPT !.pc = "lin_layout"]

\* _launch_linear: split-window -d -t session [-v|-h] for monitor k; the
\* target is the session's active pane
LinSplit ==
    /\ L.pc = "lin_split"
    /\ LET nl == NormalizeLayout(L.layout)
           direction == IF nl = "horizontal" THEN "-h" ELSE "-v"
       IN  \E ok \in Outcomes(tmux.exists
                              /\ SplitHasRoom(tmux.panes, tmux.active, direction)) :
             LET l == Issue(L, "split-window")
             IN  IF ok
                 THEN LauncherStep(
                        IF nl = "tiled" THEN [l EXCEPT !.pc = "lin_tiled"]
                        ELSE AfterLinSplit(l),
                        [tmux EXCEPT
                           !.panes = SplitPane(tmux.panes, tmux.active, direction,
                                               0, tmux.next_id,
                                               MonitorCmd(L.monitors[L.k])),
                           !.next_id = tmux.next_id + 1,
                           !.layout = "custom"])
                 ELSE LauncherStep(Raise(l, "CalledProcessError"), tmux)

\* select-layout name on the session's window
SelectLayoutEffectClosesOnRepeat(t, name) ==
    IF t.layout = name /\ Len(t.panes) > 1
    THEN [t EXCEPT !.panes = Relayout(name, SubSeq(t.panes, 1, Len(t.panes) - 1), t.size)]
    ELSE [t EXCEPT !.panes = Relayout(name, t.panes, t.size), !.layout = name]

SelectLayoutEffect(t, name) ==
    [t EXCEPT !.panes = Relayout(name, t.panes, t.size), !.layout = name]

\* _launch_linear: select-layout tiled after each split of the tiled layout
LinTiled ==
    /\ L.pc = "lin_tiled"
    /\ \E ok \in Outcomes(tmux.exists) :
         LET l == Issue(L, "select-layout")
         IN  IF ok
             THEN LauncherStep(AfterLinSplit(l), SelectLayoutEffect(tmux, "tiled"))
             ELSE LauncherStep(Raise(l, "CalledProcessError"), tmux)

\* _launch_linear: select-layout layout_map[layout]
LinLayout ==
    /\ L.pc = "lin_layout"
    /\ \E ok \in Outcomes(tmux.exists) :
         LET l == Issue(L, "select-layout")
         IN  IF ok
             THEN LauncherStep([l EXCEPT !.pc = "select_pane"],
                               SelectLayoutEffect(tmux,
                                   LayoutMap(NormalizeLayout(L.layout))))
             ELSE LauncherStep(Raise(l, "CalledProcessError"), tmux)

\* select-pane -t session:0.0 (_launch_linear) or -t panes[0].pane_id
\* (_launch_grid): the last call of the try block
SelectPane ==
    /\ L.pc = "select_pane"
    /\ LET target == IF IsLinear(L)
                     THEN (IF tmux.panes = <<>> THEN 0 ELSE tmux.panes[1].id)
                     ELSE L.panes[1].pane_id
       IN  \E ok \in Outcomes(tmux.exists /\ HasPane(tmux.panes, target)) :
             LET l == Issue(L, "select-pane")
             IN  IF ok
                 THEN LauncherStep([l EXCEPT !.pc = "hook", !.k = 1],
                                   [tmux EXCEPT !.active = target])
                 ELSE LauncherStep(Raise(l, "CalledProcessError"), tmux)

\* _launch_grid: root_pane = _list_panes(session)[0].pane_id
ListRoot ==
    /\ L.pc = "list_root"
    /\ \E ok \in Outcomes(tmux.exists) :
         LET l == Issue(L, "list-panes")
         IN  IF ok
             THEN LauncherStep(
                    [l EXCEPT !.root_pane = ListPanes(tmux.panes)[1].pane_id,
                              !.pc = IF L.rows >= 2 THEN "split_rows"
                                     ELSE "list_rows",
                              !.rem = L.rows],
                    tmux)
             ELSE LauncherStep(Raise(l, "CalledProcessError"), tmux)

\* the split-window call of _split_equal for `remaining`
SplitEqualStep(t, target, direction, remaining) ==
    [t EXCEPT !.panes = SplitPane(t.panes, target, direction,
                                  SplitPct(remaining), t.next_id, HOLD_CMD),
              !.next_id = t.next_id + 1,
              !.layout = "custom"]

\* _split_equal(target_pane=root_pane, direction="-v", parts=rows): one split
SplitRows ==
    /\ L.pc = "split_rows"
    /\ \E ok \in Outcomes(tmux.exists
                          /\ SplitHasRoom(tmux.panes, L.root_pane, "-v")) :
         LET l == Issue(L, "split-window")
         IN  IF ok
             THEN LauncherStep(
                    IF L.rem > 2 THEN [l EXCEPT !.rem = L.rem - 1]
                    ELSE [l EXCEPT !.pc = "list_rows", !.rem = 0],
                    SplitEqualStep(tmux, L.root_pane, "-v", L.rem))
             ELSE LauncherStep(Raise(l, "CalledProcessError"), tmux)

\* the next pair of zip(row_roots, row_counts) from index k on whose
\* _split_equal issues a split (parts >= 2); 0 when there is none
RECURSIVE NextRowToSplit(_, _, _)
NextRowToSplit(k, row_roots, row_counts) ==
    IF k > Min2(Len(row_roots), Len(row_counts)) THEN 0
    ELSE IF row_counts[k] >= 2 THEN k
    ELSE NextRowToSplit(k + 1, row_roots, row_counts)

\* the position of the column splits at row k, or past them
AtRow(l, k) ==
    LET n == NextRowToSplit(k, l.row_roots, l.row_counts)
    IN  IF n = 0 THEN [l EXCEPT !.pc = "list_final", !.k = 0, !.rem = 0]
        ELSE [l EXCEPT !.pc = "split_cols", !.k = n, !.rem = l.row_counts[n]]

\* the pane list sorted as _launch_grid sorts it
SortedPanes(panes) == SortedByTopLeft(panes)

\* _launch_grid: row_roots = sorted(_list_panes(session), key=(top, left))
ListRows ==
    /\ L.pc = "list_rows"
    /\ \E ok \in Outcomes(tmux.exists) :
         LET l == Issue(L, "list-panes")
         IN  IF ok
             THEN LauncherStep(
                    AtRow([l EXCEPT !.row_roots = SortedPanes(ListPanes(tmux.panes))],
                          1),
                    tmux)
             ELSE LauncherStep(Raise(l, "CalledProcessError"), tmux)

\* _split_equal(target_pane=row_root.pane_id, direction="-h", parts=row_size):
\* one split
SplitCols ==
    /\ L.pc = "split_cols"
    /\ LET target == L.row_roots[L.k].pane_id
       IN  \E ok \in Outcomes(tmux.exists
                              /\ SplitHasRoom(tmux.panes, target, "-h")) :
             LET l == Issue(L, "split-window")
             IN  IF ok
                 THEN LauncherStep(
                        IF L.rem > 2 THEN [l EXCEPT !.rem = L.rem - 1]
                        ELSE AtRow(l, L.k + 1),
                        SplitEqualStep(tmux, target, "-h", L.rem))
                 ELSE LauncherStep(Raise(l, "CalledProcessError"), tmux)

CommandsReversed(monitors, n_panes) ==
    [i \in 1..Max2(Len(monitors), n_panes) |->
       IF i <= Len(monitors) THEN MonitorCmd(monitors[Len(monitors) + 1 - i])
       ELSE BLANK_CMD]

\* commands: the monitors' commands, then BLANK_CMD up to len(panes)
Commands(monitors, n_panes) ==
    [i \in 1..Max2(Len(monitors), n_panes) |->
       IF i <= Len(monitors) THEN MonitorCmd(monitors[i]) ELSE BLANK_CMD]

\* len(panes) != total_slots
CountMismatchNever(n_panes, total_slots) == FALSE
CountMismatch(n_panes, total_slots) == n_panes # total_slots

\* _launch_grid: panes = sorted(_list_panes(session)), the pane count check
\* and the command list
ListFinal ==
    /\ L.pc = "list_final"
    /\ \E ok \in Outcomes(tmux.exists) :
         LET l == Issue(L, "list-panes")
             panes == SortedPanes(ListPanes(tmux.panes))
         IN  IF ~ok THEN LauncherStep(Raise(l, "CalledProcessError"), tmux)
             ELSE IF CountMismatch(Len(panes), L.total_slots)
             THEN LauncherStep(Raise([l EXCEPT !.panes = panes], "RuntimeError"),
                               tmux)
             ELSE LauncherStep(
                    [l EXCEPT !.panes = panes,
                              !.commands = Commands(L.monitors, Len(panes)),
                              !.pc = "respawn", !.k = 1],
                    tmux)

\* respawn-pane -k -t pane_id cmd: the pane's process is replaced in place
RespawnPane(panes, id, cmd) ==
    [i \in 1..Len(panes) |->
       IF panes[i].id = id THEN [panes[i] EXCEPT !.cmd = cmd] ELSE panes[i]]

\* _launch_grid: for pane, cmd in zip(panes, commands): respawn-pane
Respawn ==
    /\ L.pc = "respawn"
    /\ LET target == L.panes[L.k].pane_id
       IN  \E ok \in Outcomes(tmux.exists /\ HasPane(tmux.panes, target)) :
             LET l == Issue(L, "respawn-pane")
             IN  IF ok
                 THEN LauncherStep(
                        IF L.k < Min2(Len(L.panes), Len(L.commands))
                        THEN [l EXCEPT !.k = L.k + 1]
                        ELSE [l EXCEPT !.pc = "select_pane"],
                        [tmux EXCEPT !.panes = RespawnPane(tmux.panes, target,
                                                           L.commands[L.k])])
                 ELSE LauncherStep(Raise(l, "CalledProcessError"), tmux)

\* except Exception: kill-session -t session (check=False), then raise; the
\* call ends the session, and fails unnoticed when the session is gone already
Teardown ==
    /\ L.pc = "teardown"
    /\ LauncherStep([Issue(L, "kill-session") EXCEPT !.pc = "done",
                                                     !.result = L.exc],
                    NoSession)

\* where launch() goes on after _configure_live_reflow_hook
AfterHook(l) ==
    IF l.live_reflow THEN [l EXCEPT !.pc = "rf_exists", !.k = 0]
    ELSE [l EXCEPT !.pc = "attach", !.k = 0]

\* _configure_live_reflow_hook: set-hook -u (check=False) when live reflow is
\* off, set-hook with the reflow command when it is on, for hook name k
SetHook ==
    /\ L.pc = "hook"
    /\ \E ok \in Outcomes(tmux.exists) :
         LET l == Issue(L, "set-hook")
             next == IF L.k < Len(HookNames) THEN [l EXCEPT !.k = L.k + 1]
                     ELSE AfterHook(l)
         IN  IF ok
             THEN LauncherStep(
                    next,
                    [tmux EXCEPT !.hooks[L.k] =
                       IF L.live_reflow
                       THEN HookCommand(L.layout, L.th, L.interval)
                       ELSE NoHook])
             ELSE IF L.live_reflow
             THEN LauncherStep(Raise(l, "CalledProcessError"), tmux)
             ELSE LauncherStep([next EXCEPT !.unset_failed = TRUE], tmux)

\* _apply_live_reflow(min_interval_ms=0) in launch(): _session_exists; the gate
\* returns True at once for an interval of 0
ReflowExists ==
    /\ L.pc = "rf_exists"
    /\ LauncherStep([Issue(L, "has-session") EXCEPT
                       !.pc = IF tmux.exists THEN "rf_count" ELSE "attach"],
                    tmux)

\* _apply_live_reflow: pane_count = _pane_count(session); 0 when the call fails
ReflowCount ==
    /\ L.pc = "rf_count"
    /\ \E ok \in Outcomes(tmux.exists) :
         LET n == IF ok THEN Len(tmux.panes) ELSE 0
         IN  LauncherStep([Issue(L, "list-panes") EXCEPT
                             !.pane_count = n,
                             !.pc = IF n <= 1 THEN "attach" ELSE "rf_size"],
                          tmux)

\* _apply_live_reflow: size = _window_size(session); None when the call fails
ReflowSize ==
    /\ L.pc = "rf_size"
    /\ \E ok \in Outcomes(tmux.exists) :
         LauncherStep([Issue(L, "display-message") EXCEPT
                         !.size = IF ok THEN tmux.size ELSE <<0, 0>>,
                         !.pc = IF ok THEN "rf_layout" ELSE "attach"],
                      tmux)

\* _apply_live_reflow: select-layout -t session:0 (check=False)
ReflowLayout ==
    /\ L.pc = "rf_layout"
    /\ \E ok \in Outcomes(tmux.exists),
          name \in TargetTmuxLayout(L.layout, L.pane_count, L.size[1],
                                    L.size[2], L.th) :
         LauncherStep([Issue(L, "select-layout") EXCEPT !.pc = "attach"],
                      IF ok THEN SelectLayoutEffect(tmux, name) ELSE tmux)

\* _attach_or_switch: the launcher becomes tmux attach-session / switch-client
Attach ==
    /\ L.pc = "attach"
    /\ \E ok \in Outcomes(tmux.exists) :
         LauncherStep([Issue(L, "attach") EXCEPT
                         !.pc = "done",
                         !.result = IF ok THEN "attached" ELSE "attach-failed"],
                      tmux)

\* a user interrupt while launch() runs: KeyboardInterrupt raised at the
\* launcher's position
Interrupt ==
    /\ L.pc \notin {"idle", "done"}
    /\ LauncherStep(Raise(L, "KeyboardInterrupt"), tmux)

\* a pane ends from outside the launcher (its process exits, or another client
\* kills it): the other panes stay as they are
EnvKillPane ==
    /\ ~LauncherEnding
    /\ tmux.exists
    /\ Len(tmux.panes) >= 2
    /\ env_kills < MaxEnvKills
    /\ \E i \in 1..Len(tmux.panes) :
         tmux' = [tmux EXCEPT
                    !.panes = SubSeq(tmux.panes, 1, i - 1)
                              \o SubSeq(tmux.panes, i + 1, Len(tmux.panes)),
                    !.active = IF tmux.active = tmux.panes[i].id
                               THEN (IF i = 1 THEN tmux.panes[2].id
                                     ELSE tmux.panes[1].id)
                               ELSE tmux.active]
    /\ env_kills' = env_kills + 1
    /\ actor' = "env"
    /\ UNCHANGED <<gateVars, R, O, plan, L, launches>>

\* the session ends from outside the launcher
EnvKillSession ==
    /\ ~LauncherEnding
    /\ tmux.exists
    /\ env_kills < MaxEnvKills
    /\ tmux' = NoSession
    /\ env_kills' = env_kills + 1
    /\ actor' = "env"
    /\ UNCHANGED <<gateVars, R, O, plan, L, launches>>

\* ------------------------------------------------ the reflow gate and hook
\* the resolution of time.time() in the model: ticks per microsecond
TicksPerMicro == 3

\* a minimum interval in milliseconds, in ticks
IntervalTicks(min_interval_ms) == min_interval_ms * 1000 * TicksPerMicro

\* f"{now:.6f}": the microseconds nearest to now, an exact half to the even one
FormatStamp(now) ==
    LET q == now \div TicksPerMicro
        r == now % TicksPerMicro
    IN  IF 2 * r < TicksPerMicro THEN q
        ELSE IF 2 * r > TicksPerMicro THEN q + 1
        ELSE IF q % 2 = 0 THEN q ELSE q + 1

\* float(f.read().strip()): the stamp's microseconds as a time in ticks
ParseStamp(us) == us * TicksPerMicro

GateDropsAsMicros(now, prev_us, min_interval_ms) ==
    now - ParseStamp(prev_us) < min_interval_ms * TicksPerMicro

\* (now - prev) * 1000.0 < min_interval_ms
GateDrops(now, prev_us, min_interval_ms) ==
    now - ParseStamp(prev_us) < IntervalTicks(min_interval_ms)

\* the clock reading `now` is no closer to the earlier reading `prev_now` than
\* the interval less half a microsecond
Spaced(prev_now, now, min_interval_ms) ==
    2 * (now - prev_now) >= 2 * IntervalTicks(min_interval_ms) - TicksPerMicro

\* session names are sequences of characters; of the characters the model
\* uses, those for which str.isalnum() holds
Alnum == {"a", "1"}

\* the name of the model's session, and other session names of the server
ThisSession == <<"a", "_", "1">>
OtherNames == {<<"a", " ", "1">>, <<"a", "-", "1">>}

\* "".join(ch if ch.isalnum() or ch in "-_." else "_" for ch in session)
Safe(session) ==
    [i \in 1..Len(session) |->
       IF session[i] \in Alnum \/ session[i] \in {"-", "_", "."}
       THEN session[i] ELSE "_"]

\* _reflow_stamp_path: f"/tmp/muxmon-reflow-{safe}.stamp"
ReflowStampPath(session) ==
    <<"/tmp/muxmon-reflow-">> \o Safe(session) \o <<".stamp">>

\* no stamp file; parses tells whether the file's text is a number, by_now is
\* the clock reading of the invocation that wrote the stamp, applied and
\* applied_at the last select-layout of a hook invocation and that
\* invocation's clock reading
NoStamp ==
    [present |-> FALSE, parses |-> FALSE, us |-> 0, by_now |-> 0,
     applied |-> FALSE, applied_at |-> 0, by |-> <<>>]

GateDropsOrUnread(ok, now, prev_us, min_interval_ms) ==
    ~ok \/ GateDrops(now, prev_us, min_interval_ms)

\* the first try block of _reflow_allowed returns False: the stamp was read
\* as a number and is less than the interval old; any exception is passed over
GateReturnsFalse(ok, now, prev_us, min_interval_ms) ==
    ok /\ GateDrops(now, prev_us, min_interval_ms)

\* open(path, "w") and f.write: the stamp is written, or open fails and the
\* file stays as it is, or the write fails after open emptied the file
WriteOutcomes == {"written", "unchanged", "emptied"}

CallRaisesUnchecked(check, ok) == ~ok

\* _tmux(args, check=check): subprocess.run raises CalledProcessError for a
\* non-zero exit status when check is set, and returns the result otherwise
CallRaises(check, ok) == check /\ ~ok

\* no --internal-reflow process in a slot
IdleH ==
    [pc |-> "idle", layout |-> "", th |-> DefaultThresholds, interval |-> 0,
     now |-> 0, read_ok |-> FALSE, spaced |-> FALSE, pane_count |-> 0,
     size |-> <<0, 0>>, failed |-> FALSE, due |-> FALSE, applied |-> FALSE,
     exc |-> "none", stamped |-> FALSE]

\* an exception leaves _apply_live_reflow and main(): the process ends with it
HookRaise(h, exc) == [h EXCEPT !.pc = "done", !.exc = exc, !.failed = TRUE]

\* a step of the hook's process i
HookStep(i, h, t, g) ==
    /\ ~LauncherEnding
    /\ H' = [H EXCEPT ![i] = h]
    /\ tmux' = t
    /\ gate' = g
    /\ actor' = "hook"
    /\ UNCHANGED <<R, O, plan, L, launches, env_kills, clock, ticks, fires>>

\* client-resized or client-attached fires: run-shell -b starts the registered
\* command, main() with --internal-reflow and the flags of the registration
HookFire(i) ==
    /\ ~LauncherEnding
    /\ H[i].pc = "idle"
    /\ tmux.exists
    /\ fires < MaxFires
    /\ \E k \in 1..Len(HookNames) :
         /\ tmux.hooks[k].set
         /\ H' = [H EXCEPT ![i] =
                    [IdleH EXCEPT !.pc = "exists",
                                  !.layout = tmux.hooks[k].layout,
                                  !.th = tmux.hooks[k].th,
                                  !.interval = tmux.hooks[k].interval]]
    /\ fires' = fires + 1
    /\ actor' = "hook"
    /\ UNCHANGED <<R, O, plan, tmux, L, launches, env_kills, clock, ticks, gate>>

\* _apply_live_reflow: if not _session_exists(session): return
HookExists(i) ==
    /\ H[i].pc = "exists"
    /\ HookStep(i, [H[i] EXCEPT !.pc = IF tmux.exists THEN "gate" ELSE "done"],
                tmux, gate)

HookGateReadAnyInterval(i) ==
    /\ H[i].pc = "gate"
    /\ \E ok \in Outcomes(gate.present /\ gate.parses) :
         LET h == [H[i] EXCEPT
                     !.now = clock,
                     !.read_ok = ok,
                     !.spaced = Spaced(gate.by_now, clock, H[i].interval),
                     !.failed = gate.present /\ ~ok,
                     !.due = /\ gate.applied
                             /\ clock - gate.applied_at
                                  >= IntervalTicks(H[i].interval)]
         IN  IF GateReturnsFalse(ok, clock, gate.us, H[i].interval)
             THEN HookStep(i, [h EXCEPT !.pc = "done"], tmux, gate)
             ELSE HookStep(i, [h EXCEPT !.pc = "gate_write"], tmux, gate)

\* _reflow_allowed up to its write: True at once for an interval <= 0; else
\* now = time.time(), the stamp is read, and the attempt is dropped when the
\* stamp is read and is less than the interval old; a stamp that is missing,
\* unreadable or no number is passed over
HookGateRead(i) ==
    /\ H[i].pc = "gate"
    /\ IF H[i].interval <= 0
       THEN HookStep(i, [H[i] EXCEPT !.pc = "count"], tmux, gate)
       ELSE \E ok \in Outcomes(gate.present /\ gate.parses) :
              LET h == [H[i] EXCEPT
                          !.now = clock,
                          !.read_ok = ok,
                          !.spaced = Spaced(gate.by_now, clock, H[i].interval),
                          !.failed = gate.present /\ ~ok,
                          !.due = /\ gate.applied
                                  /\ clock - gate.applied_at
                                       >= IntervalTicks(H[i].interval)]
              IN  IF GateReturnsFalse(ok, clock, gate.us, H[i].interval)
                  THEN HookStep(i, [h EXCEPT !.pc = "done"], tmux, gate)
                  ELSE HookStep(i, [h EXCEPT !.pc = "gate_write"], tmux, gate)

\* _reflow_allowed: f.write(f"{now:.6f}"), a failure passed over; return True
HookGateWrite(i) ==
    /\ H[i].pc = "gate_write"
    /\ \E w \in WriteOutcomes :
         HookStep(i, [H[i] EXCEPT !.pc = "count",
                                  !.stamped = w = "written",
                                  !.failed = H[i].failed \/ w # "written"],
                  tmux,
                  CASE w = "written" ->
                         [gate EXCEPT !.present = TRUE,
                                      !.parses = TRUE,
                                      !.us = FormatStamp(H[i].now),
                                      !.by_now = H[i].now,
                                      !.by = ThisSession]
                    [] w = "emptied" ->
                         [gate EXCEPT !.present = TRUE, !.parses = FALSE]
                    [] OTHER -> gate)

\* _apply_live_reflow: pane_count = _pane_count(session); return if <= 1
HookCount(i) ==
    /\ H[i].pc = "count"
    /\ \E ok \in Outcomes(tmux.exists) :
         LET n == IF ok THEN Len(tmux.panes) ELSE 0
         IN  IF CallRaises(FALSE, ok)
             THEN HookStep(i, HookRaise(H[i], "CalledProcessError"), tmux, gate)
             ELSE HookStep(i, [H[i] EXCEPT
                                 !.pane_count = n,
                                 !.failed = H[i].failed \/ ~ok,
                                 !.pc = IF n <= 1 THEN "done" ELSE "size"],
                           tmux, gate)

\* _apply_live_reflow: size = _window_size(session); return if None
HookSize(i) ==
    /\ H[i].pc = "size"
    /\ \E ok \in Outcomes(tmux.exists) :
         IF CallRaises(FALSE, ok)
         THEN HookStep(i, HookRaise(H[i], "CalledProcessError"), tmux, gate)
         ELSE HookStep(i, [H[i] EXCEPT
                             !.size = IF ok THEN tmux.size ELSE <<0, 0>>,
                             !.failed = H[i].failed \/ ~ok,
                             !.pc = IF ok THEN "layout" ELSE "done"],
                       tmux, gate)

HookLayoutRepeats(i) ==
    /\ H[i].pc = "layout"
    /\ \E ok \in Outcomes(tmux.exists),
          name \in TargetTmuxLayout(H[i].layout, H[i].pane_count,
                                    H[i].size[1], H[i].size[2], H[i].th) :
         HookStep(i,
                  [H[i] EXCEPT !.pc = IF H[i].applied THEN "done" ELSE "layout",
                               !.applied = TRUE,
                               !.failed = H[i].failed \/ ~ok],
                  IF ok THEN SelectLayoutEffect(tmux, name) ELSE tmux,
                  [gate EXCEPT !.applied = TRUE,
                               !.applied_at = IF H[i].interval <= 0 THEN clock
                                              ELSE H[i].now])

\* _apply_live_reflow: select-layout -t session:0 (check=False)
HookLayout(i) ==
    /\ H[i].pc = "layout"
    /\ \E ok \in Outcomes(tmux.exists),
          name \in TargetTmuxLayout(H[i].layout, H[i].pane_count,
                                    H[i].size[1], H[i].size[2], H[i].th) :
         HookStep(i,
                  IF CallRaises(FALSE, ok)
                  THEN [HookRaise(H[i], "CalledProcessError") EXCEPT
                          !.applied = TRUE]
                  ELSE [H[i] EXCEPT !.pc = "done", !.applied = TRUE,
                                    !.failed = H[i].failed \/ ~ok],
                  IF ok THEN SelectLayoutEffect(tmux, name) ELSE tmux,
                  [gate EXCEPT !.applied = TRUE,
                               !.applied_at = IF H[i].interval <= 0 THEN clock
                                              ELSE H[i].now])

HookEndRetriesDropped(i) ==
    /\ H[i].pc = "done"
    /\ HookStep(i, IF H[i].read_ok /\ ~H[i].stamped /\ ~H[i].failed
                   THEN [H[i] EXCEPT !.pc = "gate"]
                   ELSE IdleH,
                tmux, gate)

\* main() returns: the process is gone
HookEnd(i) ==
    /\ H[i].pc = "done"
    /\ HookStep(i, IdleH, tmux, gate)

\* time passes: a tick, or the default interval less one or two ticks
ClockDeltas ==
    {1,
     IntervalTicks(LIVE_REFLOW_MIN_INTERVAL_MS_DEFAULT) - 2,
     IntervalTicks(LIVE_REFLOW_MIN_INTERVAL_MS_DEFAULT) - 1}

Tick ==
    /\ ~LauncherEnding
    /\ ticks < MaxTicks
    /\ \E d \in ClockDeltas : clock' = clock + d
    /\ ticks' = ticks + 1
    /\ actor' = "env"
    /\ UNCHANGED <<R, O, plan, tmux, L, launches, env_kills, gate, H, fires>>

\* no second launcher
IdleR == [pc |-> "idle", created |-> FALSE, exc |-> "none", result |-> "none"]

\* no invocation for another session name, and no stamp file of its own
IdleO ==
    [pc |-> "idle", name |-> <<>>, now |-> 0, read_ok |-> FALSE,
     read_by |-> <<>>, dropped |-> FALSE, applied |-> FALSE, stamp |-> NoStamp]

\* the clock, the stamp and the hook's processes before anything ran
IdleGate ==
    /\ clock = 0
    /\ ticks = 0
    /\ gate = NoStamp
    /\ H = [i \in 1..MaxHooks |-> IdleH]
    /\ fires = 0

IdlePlan ==
    [stage |-> "idle", count |-> 1, layout |-> "square", geom |-> <<1, 1>>,
     pad_empty |-> TRUE, th |-> DefaultThresholds, dims |-> NoDims,
     via |-> "none", rule |-> NoDims, cols |-> 0, row_counts |-> <<>>,
     named |-> "none", parts |-> 0, calls |-> <<>>, regions |-> <<>>]

Init ==
    /\ plan = IdlePlan
    /\ tmux = NoSession
    /\ L = IdleL
    /\ launches = 0
    /\ env_kills = 0
    /\ R = IdleR
    /\ O = IdleO
    /\ actor = "none"
    /\ IdleGate

Next ==
    \/ LaunchExisting
    \/ LaunchFresh
    \/ Exit
    \/ NewSession
    \/ SetOptions
    \/ LinSplit
    \/ LinTiled
    \/ LinLayout
    \/ SelectPane
    \/ ListRoot
    \/ SplitRows
    \/ ListRows
    \/ SplitCols
    \/ ListFinal
    \/ Respawn
    \/ Teardown
    \/ SetHook
    \/ ReflowExists
    \/ ReflowCount
    \/ ReflowSize
    \/ ReflowLayout
    \/ Attach
    \/ Interrupt
    \/ EnvKillPane
    \/ EnvKillSession

Spec == Init /\ [][Next]_vars

\* ------------------------------------------------ the gate, as the hooks use it
\* the session a fresh launch of two monitors with --layout vertical and
\* --live-reflow leaves: new-session, the options, one split, select-layout
\* even-vertical, select-pane, both hooks
GateSession ==
    LET geom == CHOOSE g \in LaunchGeometries : TRUE
        borders == CHOOSE b \in FreshBorderFlags : TRUE
        calls == OptionCalls(borders[1], borders[2])
        t0 == NewSessionState(geom[1], geom[2], MonitorCmd(RequestOrder[1]))
        first == t0.panes[1].id
        t1 == [t0 EXCEPT !.opts = OptionsAfter(t0.opts, calls, Len(calls))]
        t2 == [t1 EXCEPT !.panes = SplitPane(t1.panes, t1.active, "-v", 0,
                                             t1.next_id,
                                             MonitorCmd(RequestOrder[2])),
                         !.next_id = t1.next_id + 1,
                         !.layout = "custom"]
        t3 == SelectLayoutEffect(t2, LayoutMap("vertical"))
        t4 == [t3 EXCEPT !.active = first]
    IN  [t4 EXCEPT !.hooks =
           [k \in 1..Len(HookNames) |->
              HookCommand("vertical", DefaultThresholds,
                          LIVE_REFLOW_MIN_INTERVAL_MS_DEFAULT)]]

\* after that launch: the session is there, no launcher and no hook runs
InitGate ==
    /\ plan = IdlePlan
    /\ tmux = GateSession
    /\ L = IdleL
    /\ launches = 1
    /\ env_kills = 0
    /\ R = IdleR
    /\ O = IdleO
    /\ actor = "none"
    /\ IdleGate

\* launch() --live-reflow on the session
LaunchOnGateSession ==
    LaunchExistingWith({"auto-geometry", "horizontal"}, FreshBorderFlags, {TRUE})

\* the hooks' processes, the clock, and launches that find the session there
NextGate ==
    \/ \E i \in 1..MaxHooks : HookFire(i)
    \/ \E i \in 1..MaxHooks : HookExists(i)
    \/ \E i \in 1..MaxHooks : HookGateRead(i)
    \/ \E i \in 1..MaxHooks : HookGateWrite(i)
    \/ \E i \in 1..MaxHooks : HookCount(i)
    \/ \E i \in 1..MaxHooks : HookSize(i)
    \/ \E i \in 1..MaxHooks : HookLayout(i)
    \/ \E i \in 1..MaxHooks : HookEnd(i)
    \/ Tick
    \/ LaunchOnGateSession
    \/ SetOptions
    \/ SetHook
    \/ ReflowExists
    \/ ReflowCount
    \/ ReflowSize
    \/ ReflowLayout
    \/ Attach
    \/ Exit

SpecGate == InitGate /\ [][NextGate]_vars

\* ------------------------------------- hook invocations side by side
\* run-shell -b starts every invocation as a process of its own: one more
\* than above can run at a time
HookSlots == 1..(MaxHooks + 1)

\* the session of a launch with live reflow, no launcher and no hook running
InitHooks ==
    /\ plan = IdlePlan
    /\ tmux = GateSession
    /\ L = IdleL
    /\ launches = 1
    /\ env_kills = 0
    /\ R = IdleR
    /\ O = IdleO
    /\ actor = "none"
    /\ clock = 0
    /\ ticks = 0
    /\ gate = NoStamp
    /\ H = [i \in HookSlots |-> IdleH]
    /\ fires = 0

\* the hooks' processes, the clock, and panes or the session ending from
\* outside while they run
NextHooks ==
    \/ \E i \in HookSlots : HookFire(i)
    \/ \E i \in HookSlots : HookExists(i)
    \/ \E i \in HookSlots : HookGateRead(i)
    \/ \E i \in HookSlots : HookGateWrite(i)
    \/ \E i \in HookSlots : HookCount(i)
    \/ \E i \in HookSlots : HookSize(i)
    \/ \E i \in HookSlots : HookLayout(i)
    \/ \E i \in HookSlots : HookEnd(i)
    \/ Tick
    \/ EnvKillPane
    \/ EnvKillSession

SpecHooks == InitHooks /\ [][NextHooks]_vars

\* ------------------------------------- two launchers, one session name
\* a step of the second launcher: it and the session change, nothing else
RivalStep(r, t) ==
    /\ R' = r
    /\ tmux' = t
    /\ actor' = "rival"
    /\ UNCHANGED <<gateVars, O, plan, L, launches, env_kills>>

\* the second launcher's launch(): _session_exists found no session, and it
\* goes on to a fresh build of one monitor, --layout vertical, live reflow off
RivalLaunch ==
    /\ R.pc = "idle"
    /\ ~tmux.exists
    /\ RivalStep([R EXCEPT !.pc = "new_session"], tmux)

\* its new-session: fails if the name is taken, or for any other reason
RivalNewSession ==
    /\ R.pc = "new_session"
    /\ \E ok \in Outcomes(~tmux.exists), geom \in LaunchGeometries :
         IF ok
         THEN RivalStep([R EXCEPT !.pc = "build", !.created = TRUE],
                        NewSessionState(geom[1], geom[2],
                                        MonitorCmd(RequestOrder[1])))
         ELSE RivalStep([R EXCEPT !.pc = "teardown",
                                  !.exc = "CalledProcessError"], tmux)

\* the rest of its try block: the options, select-layout and select-pane all
\* succeed, or one of the calls fails
RivalBuild ==
    /\ R.pc = "build"
    /\ \E ok \in Outcomes(tmux.exists), borders \in FreshBorderFlags :
         LET calls == OptionCalls(borders[1], borders[2])
             t == [tmux EXCEPT !.opts = OptionsAfter(tmux.opts, calls, Len(calls))]
         IN  IF ok
             THEN RivalStep([R EXCEPT !.pc = "finish"],
                            [SelectLayoutEffect(t, LayoutMap("vertical")) EXCEPT
                               !.active = FirstPane(0, 0, HOLD_CMD).id])
             ELSE RivalStep([R EXCEPT !.pc = "teardown",
                                      !.exc = "CalledProcessError"], tmux)

\* except Exception: kill-session -t session (check=False), then raise
RivalTeardown ==
    /\ R.pc = "teardown"
    /\ RivalStep([R EXCEPT !.pc = "done", !.result = R.exc], NoSession)

\* after its build: set-hook -u for both hooks (check=False), then attach
RivalFinish ==
    /\ R.pc = "finish"
    /\ \E ok \in Outcomes(tmux.exists) :
         RivalStep([R EXCEPT !.pc = "done",
                             !.result = IF ok THEN "attached" ELSE "attach-failed"],
                   IF tmux.exists
                   THEN [tmux EXCEPT !.hooks = [k \in 1..Len(HookNames) |-> NoHook]]
                   ELSE tmux)

\* two launchers started for the same session name side by side: fresh
\* launches of the first, every step of the second
NextRace ==
    \/ LaunchFresh
    \/ Exit
    \/ NewSession
    \/ SetOptions
    \/ LinSplit
    \/ LinTiled
    \/ LinLayout
    \/ SelectPane
    \/ ListRoot
    \/ SplitRows
    \/ ListRows
    \/ SplitCols
    \/ ListFinal
    \/ Respawn
    \/ Teardown
    \/ SetHook
    \/ ReflowExists
    \/ ReflowCount
    \/ ReflowSize
    \/ ReflowLayout
    \/ Attach
    \/ RivalLaunch
    \/ RivalNewSession
    \/ RivalBuild
    \/ RivalTeardown
    \/ RivalFinish

SpecRace == Init /\ [][NextRace]_vars

\* ------------------------------------- reflows of two session names
\* a step of the invocation for the other session name: it and the stamp
\* file of the model's session g change, nothing else
OtherStep(o, g) ==
    /\ O' = o
    /\ gate' = g
    /\ actor' = "other"
    /\ UNCHANGED <<R, plan, tmux, L, launches, env_kills, clock, ticks, H, fires>>

\* the file at _reflow_stamp_path(name): that of the model's session if the
\* paths are the same, else the other session's own
SharesStamp(name) == ReflowStampPath(name) = ReflowStampPath(ThisSession)
StampAt(name) == IF SharesStamp(name) THEN gate ELSE O.stamp

\* a hook of another session fires: --internal-reflow --session name, with
\* the default interval; that session is there
OtherFire ==
    /\ O.pc = "idle"
    /\ fires < MaxFires
    /\ \E name \in OtherNames :
         O' = [O EXCEPT !.pc = "gate", !.name = name, !.now = 0,
                        !.read_ok = FALSE, !.read_by = <<>>,
                        !.dropped = FALSE, !.applied = FALSE]
    /\ fires' = fires + 1
    /\ actor' = "other"
    /\ UNCHANGED <<R, plan, tmux, L, launches, env_kills, clock, ticks, gate, H>>

\* _reflow_allowed(name, interval) up to its write
OtherGateRead ==
    /\ O.pc = "gate"
    /\ LET file == StampAt(O.name)
       IN  \E ok \in Outcomes(file.present /\ file.parses) :
             LET o == [O EXCEPT !.now = clock, !.read_ok = ok,
                                !.read_by = IF ok THEN file.by ELSE <<>>]
             IN  IF GateReturnsFalse(ok, clock, file.us,
                                     LIVE_REFLOW_MIN_INTERVAL_MS_DEFAULT)
                 THEN OtherStep([o EXCEPT !.pc = "done", !.dropped = TRUE], gate)
                 ELSE OtherStep([o EXCEPT !.pc = "gate_write"], gate)

\* _reflow_allowed: f.write(f"{now:.6f}"), a failure passed over; return True
OtherGateWrite ==
    /\ O.pc = "gate_write"
    /\ \E w \in WriteOutcomes :
         LET file == StampAt(O.name)
             f == CASE w = "written" ->
                         [file EXCEPT !.present = TRUE, !.parses = TRUE,
                                      !.us = FormatStamp(O.now),
                                      !.by_now = O.now, !.by = O.name]
                    [] w = "emptied" ->
                         [file EXCEPT !.present = TRUE, !.parses = FALSE]
                    [] OTHER -> file
         IN  IF SharesStamp(O.name)
             THEN OtherStep([O EXCEPT !.pc = "layout"], f)
             ELSE OtherStep([O EXCEPT !.pc = "layout", !.stamp = f], gate)

\* the rest of _apply_live_reflow, on the other session: pane count, window
\* size and select-layout, or a return before it
OtherLayout ==
    /\ O.pc = "layout"
    /\ \E ok \in BOOLEAN :
         OtherStep([O EXCEPT !.pc = "done", !.applied = ok], gate)

\* main() returns: the process is gone, its session's stamp file stays
OtherEnd ==
    /\ O.pc = "done"
    /\ OtherStep([IdleO EXCEPT !.stamp = O.stamp], gate)

\* hook invocations of the model's session and of another session of the
\* server, and the clock
NextNames ==
    \/ \E i \in 1..MaxHooks : HookFire(i)
    \/ \E i \in 1..MaxHooks : HookExists(i)
    \/ \E i \in 1..MaxHooks : HookGateRead(i)
    \/ \E i \in 1..MaxHooks : HookGateWrite(i)
    \/ \E i \in 1..MaxHooks : HookCount(i)
    \/ \E i \in 1..MaxHooks : HookSize(i)
    \/ \E i \in 1..MaxHooks : HookLayout(i)
    \/ \E i \in 1..MaxHooks : HookEnd(i)
    \/ Tick
    \/ OtherFire
    \/ OtherGateRead
    \/ OtherGateWrite
    \/ OtherLayout
    \/ OtherEnd

SpecNames == InitGate /\ [][NextNames]_vars

\* ------------------------------------------------------------- main()
\* the monitors _ensure_monitors_loaded registers
REGISTRY == {RequestOrder[i] : i \in 1..Len(RequestOrder)}

\* muxmon.resolve: ALIASES.get(name, name)
Resolve(name) ==
    CASE name = "mem" -> "memory"
      [] name \in {"disk", "io"} -> "storage"
      [] OTHER -> name

\* the parser.error checks of main(), in order
FlagError(th, interval) ==
    IF th[1] <= 0 \/ th[2] <= 0 \/ th[3] <= 0 THEN "threshold-not-positive"
    ELSE IF th[1] > th[2] \/ th[2] > th[3] THEN "thresholds-out-of-order"
    ELSE IF interval < 0 THEN "interval-negative"
    ELSE "none"

\* the loop over the requested monitors: the first name that is unknown, or
\* known and not available on this system
RECURSIVE MonitorError(_, _)
MonitorError(monitors, unavailable) ==
    IF monitors = <<>> THEN "none"
    ELSE IF Resolve(Head(monitors)) \notin REGISTRY THEN "unknown-monitor"
    ELSE IF Resolve(Head(monitors)) \in unavailable THEN "unavailable-monitor"
    ELSE MonitorError(Tail(monitors), unavailable)

\* --all: the registered monitors that are available, sorted by name
AllAvailable(unavailable) ==
    SelectSeq(RequestOrder, LAMBDA m : m \notin unavailable)

MainBranchReflowFirst(args) ==
    LET fe == FlagError(args.th, args.interval)
        monitors == IF args.all THEN AllAvailable(args.unavailable)
                    ELSE args.monitors
        me == MonitorError(monitors, args.unavailable)
        out(kind, err, result) ==
            [kind |-> kind, err |-> err, result |-> result,
             monitors |-> [i \in 1..Len(monitors) |-> Resolve(monitors[i])]]
    IN  IF args.internal_reflow THEN out("reflow", "none", "returned")
        ELSE IF fe # "none" THEN out("error", fe, "ParserError")
        ELSE IF args.list_monitors THEN out("list", "none", "listed")
        ELSE IF monitors = <<>> THEN out("error", "no-monitors", "SystemExit")
        ELSE IF me # "none" THEN out("error", me, "SystemExit")
        ELSE out("launch", "none", "none")

\* main() after parse_args: parser.error for a bad threshold or interval;
\* then --internal-reflow; then --list; then sys.exit(1) without monitors, for
\* an unknown and for an unavailable monitor; else launch() with the resolved
\* names
MainBranch(args) ==
    LET fe == FlagError(args.th, args.interval)
        monitors == IF args.all THEN AllAvailable(args.unavailable)
                    ELSE args.monitors
        me == MonitorError(monitors, args.unavailable)
        out(kind, err, result) ==
            [kind |-> kind, err |-> err, result |-> result,
             monitors |-> [i \in 1..Len(monitors) |-> Resolve(monitors[i])]]
    IN  IF fe # "none" THEN out("error", fe, "ParserError")
        ELSE IF args.internal_reflow THEN out("reflow", "none", "returned")
        ELSE IF args.list_monitors THEN out("list", "none", "listed")
        ELSE IF monitors = <<>> THEN out("error", "no-monitors", "SystemExit")
        ELSE IF me # "none" THEN out("error", me, "SystemExit")
        ELSE out("launch", "none", "none")

\* the process's exit status: 0 when main() returns, after sys.exit(0) and
\* when tmux, exec'ed to attach, attaches; 2 from parser.error; 1 from
\* sys.exit(1) and from an exception that leaves main()
ExitStatus(result) ==
    CASE result \in {"attached", "listed", "returned"} -> 0
      [] result = "ParserError" -> 2
      [] OTHER -> 1

\* command lines: thresholds that are accepted, not positive, and out of
\* order each way; an interval that is accepted and a negative one; monitor
\* names with an alias, an unknown name and gpu, which is unavailable
\* without its library
MainThresholds ==
    {DefaultThresholds, <<0, 125, 240>>, <<130, 125, 240>>, <<95, 250, 240>>}
MainIntervals == {LIVE_REFLOW_MIN_INTERVAL_MS_DEFAULT, 0, -1}
MainMonitors == {<<>>, <<"cpu", "mem">>, <<"cpu", "bogus">>, <<"cpu", "gpu">>}
MainArgs ==
    [th : MainThresholds, interval : MainIntervals,
     internal_reflow : BOOLEAN, list_monitors : BOOLEAN, all : BOOLEAN,
     monitors : MainMonitors, unavailable : {{}, {"gpu"}},
     live_reflow : BOOLEAN]

\* one run of the program with --layout vertical: main() up to its exit, to
\* the start of _apply_live_reflow, or to the first branch of launch()
Main ==
    /\ L.pc = "idle"
    /\ launches < MaxLaunches
    /\ \E args \in MainArgs, borders \in FreshBorderFlags,
          geom \in LaunchGeometries :
         LET b == MainBranch(args)
         IN  CASE b.kind = "reflow" ->
                    /\ \E i \in DOMAIN H :
                         /\ H[i].pc = "idle"
                         /\ H' = [H EXCEPT ![i] =
                                    [IdleH EXCEPT !.pc = "exists",
                                                  !.layout = "vertical",
                                                  !.th = args.th,
                                                  !.interval = args.interval]]
                    /\ actor' = "hook"
                    /\ UNCHANGED L
               [] b.kind = "launch" ->
                    /\ IF tmux.exists
                       THEN L' = [LaunchArgsWith("vertical", args.live_reflow,
                                                 borders, args.th, args.interval)
                                    EXCEPT !.mode = "reconcile", !.pc = "opts",
                                           !.monitors = b.monitors]
                       ELSE L' \in FreshLaunches(b.monitors, "vertical", TRUE,
                                                 args.live_reflow, borders, geom,
                                                 args.th, args.interval)
                    /\ actor' = "launcher"
                    /\ UNCHANGED H
               [] OTHER ->
                    /\ L' = [IdleL EXCEPT !.pc = "done",
                                          !.mode = IF args.internal_reflow
                                                   THEN "internal-reflow"
                                                   ELSE "none",
                                          !.result = b.result,
                                          !.err = b.err,
                                          !.th = args.th,
                                          !.interval = args.interval,
                                          !.monitors = b.monitors]
                    /\ actor' = "launcher"
                    /\ UNCHANGED H
    /\ launches' = launches + 1
    /\ UNCHANGED <<R, O, plan, tmux, env_kills, clock, ticks, gate, fires>>

\* before a run: no session, or the session of an earlier launch
InitMain ==
    /\ plan = IdlePlan
    /\ tmux \in {NoSession, GateSession}
    /\ L = IdleL
    /\ launches = 0
    /\ env_kills = 0
    /\ R = IdleR
    /\ O = IdleO
    /\ actor = "none"
    /\ IdleGate

\* runs of the program one after the other
NextMain ==
    \/ Main
    \/ Exit
    \/ NewSession
    \/ SetOptions
    \/ LinSplit
    \/ LinLayout
    \/ SelectPane
    \/ Teardown
    \/ SetHook
    \/ ReflowExists
    \/ ReflowCount
    \/ ReflowSize
    \/ ReflowLayout
    \/ Attach
    \/ \E i \in DOMAIN H : HookExists(i)
    \/ \E i \in DOMAIN H : HookGateRead(i)
    \/ \E i \in DOMAIN H : HookGateWrite(i)
    \/ \E i \in DOMAIN H : HookCount(i)
    \/ \E i \in DOMAIN H : HookSize(i)
    \/ \E i \in DOMAIN H : HookLayout(i)
    \/ \E i \in DOMAIN H : HookEnd(i)

SpecMain == InitMain /\ [][NextMain]_vars

\* ------------------------------------------------- the planner, as called
\* terminal geometries <<columns, rows>>: aspects 4.0, 3.33, 0.95, 0.9, 0.4, 10
Geometries ==
    {<<160, 40>>, <<80, 24>>, <<19, 20>>, <<18, 20>>, <<40, 100>>, <<200, 20>>}

\* <<stackMax, tallMax, wideMin>> in hundredths, ordered as main() requires
ThresholdChoices ==
    {<<AUTO_GEOMETRY_STACK_MAX_ASPECT_DEFAULT,
       AUTO_GEOMETRY_TALL_MAX_ASPECT_DEFAULT,
       AUTO_GEOMETRY_WIDE_MIN_ASPECT_DEFAULT>>,
     <<40, 90, 350>>}

\* the layouts _plan_grid_dims receives: GRID_LAYOUTS after _normalize_layout
PlannerLayouts == {NormalizeLayout(l) : l \in GRID_LAYOUTS}

InitPlan ==
    /\ plan \in [stage : {"input"}, count : 1..MaxCount, layout : PlannerLayouts,
                 geom : Geometries, pad_empty : BOOLEAN, th : ThresholdChoices,
                 dims : {NoDims}, via : {"none"}, rule : {NoDims}, cols : {0},
                 row_counts : {<<>>}, named : {"none"}, parts : {0},
                 calls : {<<>>}, regions : {<<>>}]
    /\ tmux = NoSession
    /\ L = IdleL
    /\ launches = 0
    /\ env_kills = 0
    /\ R = IdleR
    /\ O = IdleO
    /\ actor = "none"
    /\ IdleGate

\* cols, rows = _plan_grid_dims(...)
PlanCall ==
    /\ plan.stage = "input"
    /\ \E d \in PlanGridDims(plan.count, plan.layout, plan.geom[1], plan.geom[2],
                             plan.pad_empty, plan.th) :
         plan' = [plan EXCEPT !.stage = "planned", !.dims = d,
                              !.via = PlanVia(plan.count, plan.layout,
                                              plan.geom[1], plan.geom[2],
                                              plan.th),
                              !.rule = PlanByRule(plan.count, plan.layout,
                                                  plan.geom[1], plan.geom[2],
                                                  plan.pad_empty, plan.th)]
    /\ UNCHANGED sysVars

\* row_counts = _row_counts(count, rows, cols, pad_empty) for the planned grid
\* (_launch_grid) or for a candidate of the scoring loop
RowCountsCall ==
    /\ plan.stage = "planned"
    /\ \E cols \in 1..plan.count :
         plan' = [plan EXCEPT
                    !.stage = "counted", !.cols = cols,
                    !.row_counts = RowCounts(plan.count,
                                             CeilDiv(plan.count, cols), cols,
                                             plan.pad_empty)]
    /\ UNCHANGED sysVars

\* the --layout values _target_tmux_layout receives from a reflow
TargetLayouts == GRID_LAYOUTS \cup LinearLayouts

\* tmux_layout = _target_tmux_layout(layout=..., pane_count=..., ...)
TargetCall ==
    /\ plan.stage = "input"
    /\ plan.pad_empty
    /\ \E layout \in TargetLayouts :
       \E name \in TargetTmuxLayout(layout, plan.count, plan.geom[1],
                                    plan.geom[2], plan.th) :
         plan' = [plan EXCEPT !.stage = "named", !.layout = layout,
                              !.named = name]
    /\ UNCHANGED sysVars

\* the largest parts for which the regions are computed
ShareParts == 7

\* _split_equal(session=..., target_pane=..., direction=..., parts=...), and
\* the regions it leaves on a multiplexer that splits at the exact percentage
SplitEqualCall ==
    /\ plan.stage = "input"
    /\ plan.pad_empty
    /\ plan.layout = "square"
    /\ \E parts \in {0, plan.count}, direction \in {"-v", "-h"}, target \in {0, 3} :
         LET calls == SplitEqual(target, direction, parts)
         IN  plan' = [plan EXCEPT
                        !.stage = "split", !.parts = parts, !.calls = calls,
                        !.regions = IF parts <= ShareParts
                                    THEN ExactRegions(<<1, 1>>, calls, 1)
                                    ELSE <<>>]
    /\ UNCHANGED sysVars

NextPlan == PlanCall \/ RowCountsCall \/ TargetCall \/ SplitEqualCall

SpecPlan == InitPlan /\ [][NextPlan]_vars

\* ----------------------------------------------------------------- claims
\* C9: for every count in 1..MaxCount, every grid layout mode, every terminal
\* geometry and both padding settings, _plan_grid_dims returns (cols, rows)
\* with 1 <= cols <= count, 1 <= rows <= count, cols*rows >= count and
\* cols*rows - count < cols, the auto-geometry stack guard included.
C9_PlanWithinGrid ==
    plan.stage \in {"planned", "counted"} =>
        LET cols == plan.dims[1]
            rows == plan.dims[2]
        IN  /\ 1 <= cols /\ cols <= plan.count
            /\ 1 <= rows /\ rows <= plan.count
            /\ cols * rows >= plan.count
            /\ cols * rows - plan.count < cols

\* a scored plan that leaves empty slots, and a plan from the stack guard
C9_Witness ==
    /\ plan.stage = "planned"
    /\ plan.count = MaxCount - 1
    /\ plan.dims[1] > 1 /\ plan.dims[2] > 1
    /\ plan.dims[1] * plan.dims[2] > plan.count

\* C10: for count >= 1, cols in 1..count and rows = ceil(count/cols),
\* _row_counts returns exactly `rows` entries; padded, every entry is cols and
\* the sum is cols*rows; unpadded, the sum is count, every entry but the last
\* is cols and the last is in 1..cols.
C10_RowCountsShape ==
    plan.stage = "counted" =>
        LET cols == plan.cols
            rows == CeilDiv(plan.count, cols)
            rc == plan.row_counts
        IN  /\ Len(rc) = rows
            /\ plan.pad_empty =>
                 /\ \A i \in 1..rows : rc[i] = cols
                 /\ SumSeq(rc) = cols * rows
            /\ ~plan.pad_empty =>
                 /\ SumSeq(rc) = plan.count
                 /\ \A i \in 1..(rows - 1) : rc[i] = cols
                 /\ 1 <= rc[rows] /\ rc[rows] <= cols

\* an unpadded grid whose last row is short
C10_Witness ==
    /\ plan.stage = "counted"
    /\ ~plan.pad_empty
    /\ Len(plan.row_counts) >= 3
    /\ plan.row_counts[Len(plan.row_counts)] < plan.cols

\* ------------------------------------------------ claims about launch()
\* the commands a launch() has issued so far
Issued(l) == {l.cmds[i] : i \in 1..Len(l.cmds)}

\* the session's pane set and the process running in each pane
PaneProcs(t) == [i \in 1..Len(t.panes) |-> <<t.panes[i].id, t.panes[i].cmd>>]

RebuildCommands == {"new-session", "split-window", "respawn-pane", "kill-session"}

\* a step of a launch() that found the session there
ReconcileStep == actor' = "launcher" /\ L'.mode = "reconcile"

BuildCallFailed ==
    /\ L.pc = "done"
    /\ L.mode = "fresh"
    /\ L.at \in BuildPcs
    /\ L.result \in {"CalledProcessError", "RuntimeError"}

\* C2: when a multiplexer call of a fresh build fails (new-session, an option,
\* a split, a pane listing, the pane count check, respawn-pane, select-layout,
\* select-pane), linear or grid, kill-session is the last command issued
\* before the error leaves launch(): no set-hook and no attach follows.
C2_TeardownOnBuildFailure ==
    BuildCallFailed =>
        /\ L.cmds[Len(L.cmds)] = "kill-session"
        /\ Issued(L) \cap {"set-hook", "attach"} = {}

\* C2: the pane count check of a grid build failed after splits, and the
\* session was killed
C2_Witness ==
    /\ BuildCallFailed
    /\ L.result = "RuntimeError"
    /\ L.at = "list_final"
    /\ "split-window" \in Issued(L)
    /\ ~tmux.exists

\* this launch() created the session
CreatedSession(l) ==
    /\ l.mode = "fresh"
    /\ "new-session" \in Issued(l)
    /\ l.at # "new_session"

\* C3 as stated: a launch that found no session and ends with an error after
\* it created the session leaves no session behind
C3_FailedLaunchLeavesNoSession ==
    (/\ L.pc = "done"
     /\ CreatedSession(L)
     /\ L.result = "CalledProcessError")
    => ~tmux.exists

\* C4 as stated: a KeyboardInterrupt during a fresh build, after the session
\* was created, has kill-session issued before the launcher ends
C4_InterruptTearsDown ==
    (/\ L.pc = "done"
     /\ CreatedSession(L)
     /\ L.at \in BuildPcs
     /\ L.result = "KeyboardInterrupt")
    => "kill-session" \in Issued(L)

\* ------------------------------------------------ claims about _launch_grid
\* a fresh launch in a grid mode
GridLaunch == L.mode = "fresh" /\ ~IsLinear(L)

\* _launch_grid has returned: its last call, select-pane, succeeded
GridBuilt ==
    /\ GridLaunch
    /\ "select-pane" \in Issued(L)
    /\ L.pc \notin BuildPcs \cup {"teardown"}
    /\ L.at \notin BuildPcs

\* cols * rows with padding, the number of monitors without
ExpectedPanes(l) ==
    IF l.pad_empty THEN l.cols * l.rows ELSE Len(l.monitors)

IdSet(panes) == {panes[i].id : i \in 1..Len(panes)}
ListedIds(panes) == {panes[i].pane_id : i \in 1..Len(panes)}

\* the panes of the list whose top is `top`: one row of the grid
RowOf(panes, top) == {i \in 1..Len(panes) : panes[i].top = top}
Tops(panes) == {panes[i].top : i \in 1..Len(panes)}

\* the rows of the list are `rows` rows of `cols` panes, the lowest row
\* possibly shorter
GridShape(panes, cols, rows) ==
    /\ Cardinality(Tops(panes)) = rows
    /\ \A t \in Tops(panes) :
         /\ Cardinality(RowOf(panes, t)) \in 1..cols
         /\ (\E u \in Tops(panes) : u > t) => Cardinality(RowOf(panes, t)) = cols

\* C7: once the pane count check of _launch_grid has passed, and after
\* _launch_grid has returned, the panes the splits realized are cols * rows
\* with padding and N (the number of monitors) without, in `rows` rows of
\* `cols` panes with only the last row possibly shorter; the session holds no
\* other pane, and exactly these unless a pane was ended from outside; and when
\* the realized count differs from the planned slot total the build raises
\* RuntimeError with no respawn-pane issued.
C7_GridPaneCount ==
    /\ (GridLaunch /\ (GridBuilt \/ L.pc \in {"respawn", "select_pane"})) =>
          /\ L.total_slots = ExpectedPanes(L)
          /\ Len(L.panes) = ExpectedPanes(L)
          /\ GridShape(L.panes, L.cols, L.rows)
          /\ IdSet(tmux.panes) \subseteq ListedIds(L.panes)
          /\ env_kills = 0 => Len(tmux.panes) = ExpectedPanes(L)
    /\ (GridLaunch /\ "respawn-pane" \in Issued(L)) =>
          Len(L.panes) = L.total_slots
    /\ (GridLaunch /\ L.exc = "RuntimeError") =>
          /\ "respawn-pane" \notin Issued(L)
          /\ Len(L.panes) # L.total_slots

\* C7: an unpadded grid of three monitors was built as two rows of two
\* columns with a short last row, and the session holds its three panes
C7_Witness ==
    /\ GridBuilt
    /\ ~L.pad_empty
    /\ Len(L.monitors) = 3
    /\ L.cols = 2
    /\ L.rows = 2
    /\ Len(tmux.panes) = 3
    /\ env_kills = 0

IsSortedTopLeft(panes) ==
    \A i \in 1..(Len(panes) - 1) :
      \/ panes[i].top < panes[i + 1].top
      \/ panes[i].top = panes[i + 1].top /\ panes[i].left <= panes[i + 1].left

\* the command the i-th pane of the sorted list is to run
BoundCmd(l, i) ==
    IF i <= Len(l.monitors) THEN MonitorCmd(l.monitors[i]) ELSE BLANK_CMD

TimesIssued(l, cmd) == Cardinality({i \in 1..Len(l.cmds) : l.cmds[i] = cmd})

\* C8: after a successful grid build the realized pane list is sorted by
\* (top, left); the pane at index i of it runs the command of the i-th
\* requested monitor for i <= N and the blank filler beyond; respawn-pane was
\* issued once per listed pane, the listed panes being distinct; the session's
\* panes sorted by (top, left) are the listed ones in the same order unless a
\* pane was ended from outside; and no step of the binding loop adds or
\* removes a pane.
C8_GridBinding ==
    /\ [](GridBuilt =>
            /\ IsSortedTopLeft(L.panes)
            /\ Cardinality(ListedIds(L.panes)) = Len(L.panes)
            /\ TimesIssued(L, "respawn-pane") = Len(L.panes)
            /\ \A i \in 1..Len(L.panes), j \in 1..Len(tmux.panes) :
                 tmux.panes[j].id = L.panes[i].pane_id =>
                     tmux.panes[j].cmd = BoundCmd(L, i)
            /\ env_kills = 0 =>
                 PaneIds(SortedByTopLeft(tmux.panes))
                   = [i \in 1..Len(L.panes) |-> L.panes[i].pane_id])
    /\ [][(L.pc = "respawn" /\ actor' = "launcher") =>
            PaneIds(tmux'.panes) = PaneIds(tmux.panes)]_vars

\* C8: a padded grid of three monitors was built with four panes: three run
\* their monitors in request order and the fourth the blank filler
C8_Witness ==
    /\ GridBuilt
    /\ L.pad_empty
    /\ Len(L.monitors) = 3
    /\ Len(tmux.panes) = 4
    /\ env_kills = 0
    /\ LET sp == SortedByTopLeft(tmux.panes)
       IN  /\ sp[1].cmd = MonitorCmd("cpu")
           /\ sp[2].cmd = MonitorCmd("gpu")
           /\ sp[3].cmd = MonitorCmd("memory")
           /\ sp[4].cmd = BLANK_CMD

LauncherApplies == L.pc = "rf_layout" /\ L'.pc = "attach"

C6_DueAttemptApplies ==
    \A i \in 1..MaxHooks :
      (/\ H[i].pc = "done"
       /\ H[i].due
       /\ ~H[i].failed
       /\ tmux.exists
       /\ Len(tmux.panes) >= 2
       /\ L.pc = "idle"
       /\ launches = 1)
      => H[i].applied


\* ------------------------------------------------------------ C11
\* launch() is past _configure_live_reflow_hook and has not failed
HooksConfigured ==
    \/ L.pc \in {"rf_exists", "rf_count", "rf_size", "rf_layout", "attach"}
    \/ L.pc = "done" /\ L.result = "attached"

\* what --internal-reflow is registered with for the arguments of launch() l
RegisteredFor(l) ==
    [set |-> TRUE, layout |-> l.layout, th |-> l.th, interval |-> l.interval]

HookRank(pc) ==
    CASE pc = "exists" -> 1
      [] pc = "gate" -> 2
      [] pc = "gate_write" -> 3
      [] pc = "count" -> 4
      [] pc = "size" -> 5
      [] pc = "layout" -> 6
      [] pc = "done" -> 7
      [] OTHER -> 8

\* the next step of the running invocation i
HookRuns(i) ==
    \/ HookExists(i)
    \/ HookGateRead(i)
    \/ HookGateWrite(i)
    \/ HookCount(i)
    \/ HookSize(i)
    \/ HookLayout(i)
    \/ HookEnd(i)

\* C12: a hook invocation never raises, whichever of its multiplexer calls
\* fail and whether or not the session is still there; it can always take its
\* next step and every step takes it further towards its end, so it
\* terminates; and no step of it ends the session or creates, ends or
\* replaces a pane.
C12_HookNeverRaises ==
    /\ [](\A i \in DOMAIN H :
            /\ H[i].exc = "none"
            /\ H[i].pc # "idle" => ENABLED HookRuns(i))
    /\ [][\A i \in DOMAIN H :
            (H[i].pc # "idle" /\ H'[i] # H[i]) =>
              HookRank(H'[i].pc) > HookRank(H[i].pc)]_vars
    /\ [][actor' = "hook" =>
            /\ tmux'.exists = tmux.exists
            /\ PaneProcs(tmux') = PaneProcs(tmux)
            /\ tmux'.next_id = tmux.next_id]_vars

\* C12: an invocation found the session and two panes, the session went
\* away, its next call failed, and it has ended without an exception
C12_Witness ==
    \E i \in DOMAIN H :
      /\ H[i].pc = "done"
      /\ H[i].pane_count >= 2
      /\ H[i].failed
      /\ H[i].exc = "none"
      /\ ~tmux.exists


\* ------------------------------------------------------------ C13
\* invocation i leaves the gate's read in this step, with a positive interval
GateReadBy(i) ==
    H[i].pc = "gate" /\ H'[i].pc # "gate" /\ H[i].interval > 0

\* C13: with a positive interval, an attempt whose stamp read fails (no file,
\* unreadable, or no number) goes on to write the stamp; an attempt at the
\* write goes on to the reflow whether or not the write succeeds; an attempt
\* is dropped only on a stamp it read as a number and that is less than the
\* interval old; and the stamp a read can return is never later than the
\* clock by more than half a microsecond: so after any read and write faults,
\* an attempt made once the interval has passed is not dropped.
C13_GateFailsOpen ==
    /\ [][\A i \in DOMAIN H :
            /\ (GateReadBy(i) /\ ~H'[i].read_ok) => H'[i].pc = "gate_write"
            /\ (GateReadBy(i) /\ H'[i].pc = "done") =>
                  /\ H'[i].read_ok
                  /\ gate.present /\ gate.parses
                  /\ clock - ParseStamp(gate.us) < IntervalTicks(H[i].interval)
            /\ (H[i].pc = "gate_write" /\ H'[i] # H[i]) => H'[i].pc = "count"]_vars
    /\ []((gate.present /\ gate.parses) =>
            2 * ParseStamp(gate.us) <= 2 * clock + TicksPerMicro)

\* C13: a write fault has left a stamp file that is no number, and a later
\* attempt, its read failed, is at the write
C13_Witness ==
    \E i \in DOMAIN H :
      /\ H[i].pc = "gate_write"
      /\ ~H[i].read_ok
      /\ gate.present
      /\ ~gate.parses


\* ------------------------------------------------------ C14 and C15
\* C14 as stated: a run without monitors, with an unknown monitor, with an
\* unavailable monitor or with out-of-order thresholds exits with status 1
C14_UserErrorsExitOne ==
    L.err \in {"no-monitors", "unknown-monitor", "unavailable-monitor",
               "thresholds-out-of-order"} =>
      ExitStatus(L.result) = 1

\* the errors main() finds in the thresholds, the interval and the monitors
ValidationErrors ==
    {"threshold-not-positive", "thresholds-out-of-order", "interval-negative",
     "unknown-monitor", "unavailable-monitor"}

\* C15: a run that ends with a threshold, interval, unknown-monitor or
\* unavailable-monitor error has issued no multiplexer command, and its steps
\* leave the session, the stamp and the reflow processes as they are; and
\* every process that runs _apply_live_reflow or has issued a multiplexer
\* command carries thresholds and an interval main() accepts and registered
\* monitors only.
C15_ErrorsBeforeSideEffects ==
    /\ [](L.err \in ValidationErrors => L.cmds = <<>>)
    /\ [][(L.err \in ValidationErrors \/ L'.err \in ValidationErrors) =>
            (tmux' = tmux /\ gate' = gate /\ H' = H)]_vars
    /\ [](\A i \in DOMAIN H :
            H[i].pc # "idle" => FlagError(H[i].th, H[i].interval) = "none")
    /\ [](L.cmds # <<>> =>
            /\ FlagError(L.th, L.interval) = "none"
            /\ \A k \in 1..Len(L.monitors) : L.monitors[k] \in REGISTRY)

\* C15: a run with --internal-reflow and out-of-order thresholds, naming a
\* session that exists with its hooks registered, has ended with the error
C15_Witness ==
    /\ L.pc = "done"
    /\ L.err = "thresholds-out-of-order"
    /\ L.mode = "internal-reflow"
    /\ L.cmds = <<>>
    /\ tmux.exists
    /\ tmux.hooks[1].set
    /\ gate = NoStamp


\* ------------------------------------------------------------ C16
\* terminal_aspect <= t/100 and >= t/100 for the planned call's geometry
AspectLE(t) == 100 * plan.geom[1] <= t * Max2(1, plan.geom[2])
AspectGE(t) == 100 * plan.geom[1] >= t * Max2(1, plan.geom[2])

\* the <<cols, rows>> the scoring loop may select for the planned call with
\* the target ratio of `layout`
ScoredWith(layout) ==
    LET term_aspect == TermAspect(plan.geom[1], plan.geom[2])
    IN  {<<b.cols, b.rows>> :
           b \in ScoreLoop(1, {}, plan.count, plan.layout,
                           TargetColRowRatio(layout, term_aspect), term_aspect,
                           plan.pad_empty)}

\* C16: in auto-geometry mode, with count >= 3 and aspect <= stackMax the
\* plan is (1, count) and nothing is scored; otherwise the plan is scored with
\* the Wide target when aspect >= wideMin, else with the Tall target when
\* aspect <= tallMax, else with the Square target; with 0.95/1.25/2.40, aspect
\* 0.90 and count 3 give (1, 3), and aspect 0.95 with count 2 is scored.
C16_AutoGeometryClassification ==
    (plan.stage \in {"planned", "counted"} /\ plan.layout = "auto-geometry") =>
      /\ IF plan.count >= 3 /\ AspectLE(plan.th[1])
         THEN plan.via = "stack" /\ plan.dims = <<1, plan.count>>
         ELSE /\ plan.via = IF AspectGE(plan.th[3]) THEN "auto-wide"
                            ELSE IF AspectLE(plan.th[2]) THEN "auto-tall"
                            ELSE "auto-square"
              /\ plan.dims \in ScoredWith(plan.via)
      /\ (plan.th = <<95, 125, 240>> /\ plan.geom = <<18, 20>> /\ plan.count = 3)
           => plan.dims = <<1, 3>>
      /\ (plan.th = <<95, 125, 240>> /\ plan.geom = <<19, 20>> /\ plan.count = 2)
           => plan.via = "auto-tall"

\* C16: the call with aspect 0.95 = stackMax and count 2 has been scored
C16_Witness ==
    /\ plan.stage = "planned"
    /\ plan.layout = "auto-geometry"
    /\ plan.th = <<95, 125, 240>>
    /\ plan.geom = <<19, 20>>
    /\ plan.count = 2
    /\ plan.via = "auto-tall"
    /\ plan.dims \in ScoredWith("auto-tall")


\* ------------------------------------------------------------ C17
\* the planned call is count 4 on a 160x40 terminal with layout square
SquareExample ==
    /\ plan.stage \in {"planned", "counted"}
    /\ plan.count = 4
    /\ plan.geom = <<160, 40>>
    /\ plan.layout = "square"

\* the candidate with `cols` columns of the planned call
ExampleCandidate(cols) ==
    LET term_aspect == TermAspect(plan.geom[1], plan.geom[2])
    IN  Candidate(cols, plan.count, plan.layout,
                  TargetColRowRatio(plan.layout, term_aspect), term_aspect,
                  plan.pad_empty)

\* C17: for count 4, terminal 160x40 and layout square the plan is 2 columns
\* by 2 rows, and each of the candidates with 1, 3 and 4 columns has a score
\* above that of the 2x2 candidate by more than the error of the scores.
C17_SquareExample ==
    SquareExample =>
      /\ plan.dims = <<2, 2>>
      /\ ExampleCandidate(2).rows = 2
      /\ \A c \in {1, 3, 4} :
           ExampleCandidate(c).score > ExampleCandidate(2).score + ScoreEps

\* C17: the example's call has returned 2 by 2
C17_Witness ==
    /\ SquareExample
    /\ plan.stage = "planned"
    /\ plan.dims = <<2, 2>>


\* ------------------------------------------------------------ C18
\* the candidate with `cols` columns of the planned call, scored with the
\* target the call took
ViaCandidate(cols) ==
    LET term_aspect == TermAspect(plan.geom[1], plan.geom[2])
    IN  Candidate(cols, plan.count, plan.layout,
                  TargetColRowRatio(plan.via, term_aspect), term_aspect,
                  plan.pad_empty)

\* candidate c ties with the selected one on score and on empty slots
TiesWithSelected(c) ==
    /\ ViaCandidate(c).score = ViaCandidate(plan.rule[1]).score
    /\ ViaCandidate(c).empties = ViaCandidate(plan.rule[1]).empties

RowMajor(panes) ==
    \A i, j \in 1..Len(panes) :
      i < j => \/ panes[i].top < panes[j].top
               \/ panes[i].top = panes[j].top /\ panes[i].left < panes[j].left

\* the index in the sorted list of the first pane of row k of the plan
RowStart(l, k) == 1 + SumSeq(SubSeq(l.row_counts, 1, k - 1))

\* C19: in a grid build the list the row roots are taken from and the list
\* the commands are bound to are sorted by (top, left): top never decreases
\* along the list and left increases within equal top; each is a listing of
\* the session's panes at its call, every pane once; and once the pane count
\* check has passed, with no pane ended from outside, the sorted list is the
\* grid row by row: row k of it starts with the k-th row root and holds the
\* planned number of panes, all of one top, left to right.
C19_SortedIsRowMajor ==
    /\ [](GridLaunch =>
            /\ IsSortedTopLeft(L.row_roots) /\ RowMajor(L.row_roots)
            /\ IsSortedTopLeft(L.panes) /\ RowMajor(L.panes))
    /\ [][(GridLaunch /\ L.pc = "list_rows" /\ L'.pc = "split_cols") =>
            /\ ListedIds(L'.row_roots) = IdSet(tmux.panes)
            /\ Len(L'.row_roots) = Len(tmux.panes)]_vars
    /\ [][(GridLaunch /\ L.pc = "list_final" /\ L'.panes # <<>>) =>
            /\ ListedIds(L'.panes) = IdSet(tmux.panes)
            /\ Len(L'.panes) = Len(tmux.panes)]_vars
    /\ []((GridLaunch /\ L.pc \in {"respawn", "select_pane"} /\ env_kills = 0) =>
            \A k \in 1..L.rows :
              /\ L.panes[RowStart(L, k)].pane_id = L.row_roots[k].pane_id
              /\ \A i \in RowStart(L, k)..(RowStart(L, k) + L.row_counts[k] - 1) :
                   L.panes[i].top = L.row_roots[k].top)

\* C19: a grid of two rows of two columns was listed for binding
C19_Witness ==
    /\ GridLaunch
    /\ L.pc = "respawn"
    /\ L.rows = 2
    /\ L.cols = 2
    /\ Len(L.panes) = 4
    /\ env_kills = 0
    /\ RowMajor(L.panes)
    /\ L.panes[1].top = L.panes[2].top
    /\ L.panes[2].top < L.panes[3].top


\* ------------------------------------------------------------ C20
\* invocations i and j both passed the gate on the same earlier stamp: each
\* read a stamp as a number at the same clock reading, so neither read what
\* the other wrote, and each issued select-layout
BothPassed(i, j) ==
    /\ i # j
    /\ H[i].interval > 0 /\ H[j].interval > 0
    /\ H[i].read_ok /\ H[j].read_ok
    /\ H[i].now = H[j].now
    /\ H[i].applied /\ H[j].applied

\* two invocations are running at once
TwoRunning == \E i, j \in DOMAIN H : i # j /\ H[i].pc # "idle" /\ H[j].pc # "idle"

\* C20: hook invocations of one session run side by side with the stamp read
\* and written without a lock, and two of them within the interval can both
\* pass the gate and both issue select-layout; whatever the interleaving, as
\* long as nothing outside ends a pane the session stays and holds the panes
\* of the build with their processes, no pane created, and no step taken
\* while two invocations run changes the pane set.
C20_RacingReflowsKeepPanes ==
    /\ [](env_kills = 0 =>
            /\ tmux.exists
            /\ PaneProcs(tmux) = PaneProcs(GateSession)
            /\ tmux.next_id = GateSession.next_id)
    /\ [][(TwoRunning /\ actor' = "hook") =>
            /\ tmux'.exists = tmux.exists
            /\ IdSet(tmux'.panes) = IdSet(tmux.panes)
            /\ Len(tmux'.panes) = Len(tmux.panes)]_vars

\* C20: two invocations read the stamp of an earlier pass at the same clock
\* reading, the interval after it, both passed and both issued select-layout;
\* the session holds the panes of the build
C20_Witness ==
    \E i, j \in DOMAIN H :
      /\ BothPassed(i, j)
      /\ H[i].pc = "done" /\ H[j].pc = "done"
      /\ H[i].exc = "none" /\ H[j].exc = "none"
      /\ gate.present /\ gate.parses
      /\ gate.by_now = H[i].now
      /\ env_kills = 0
      /\ tmux.exists
      /\ PaneProcs(tmux) = PaneProcs(GateSession)


\* ------------------------------------------------------------ C21
\* the launcher's new-session failed with the name taken, and it runs the
\* except clause
FailedToCreate == L.pc = "teardown" /\ L.at = "new_session" /\ L.name_taken

\* C21 as stated: of two launchers that both found the session absent, the
\* one whose new-session fails never ends a session that is there, the one
\* the other launcher created or is still building
C21_FailedCreatorSparesOthers ==
    [][(FailedToCreate /\ actor' = "launcher" /\ R.created /\ tmux.exists)
         => tmux'.exists]_vars


\* ------------------------------------------------------------ C22
\* C22 as stated: an invocation none of whose calls failed and that ends
\* without select-layout, having found one pane, has not written the stamp
C22_StampOnlyWhenApplied ==
    \A i \in DOMAIN H :
      (/\ H[i].pc = "done"
       /\ ~H[i].applied
       /\ ~H[i].failed
       /\ H[i].pane_count = 1)
      => ~H[i].stamped


\* ------------------------------------------------------------ C23
\* invocation i ended at 'if not _session_exists(session): return'
EndedOnGone(i) ==
    /\ H[i].pc = "done"
    /\ H[i].interval > 0
    /\ ~H[i].read_ok /\ ~H[i].stamped /\ ~H[i].failed

\* invocation i ended at 'if not _reflow_allowed(...): return'
EndedOnDrop(i) ==
    /\ H[i].pc = "done"
    /\ H[i].interval > 0
    /\ H[i].read_ok /\ ~H[i].stamped /\ ~H[i].failed

\* C23: a hook invocation that finds the session gone, or that the gate
\* drops, changes nothing: the step that ends it leaves the session and the
\* stamp file as they are, it has issued no select-layout and read neither
\* pane count nor size, and after it has ended the only thing left to it is
\* to go away, again with session and stamp unchanged: the event is not kept
\* and is not tried again.
C23_GoneOrDroppedIsNoOp ==
    /\ [](\A i \in DOMAIN H :
            (EndedOnGone(i) \/ EndedOnDrop(i)) =>
              /\ ~H[i].applied
              /\ H[i].pane_count = 0
              /\ H[i].size = <<0, 0>>)
    /\ [][\A i \in DOMAIN H :
            (H[i].pc \in {"exists", "gate"} /\ H'[i].pc = "done") =>
              tmux' = tmux /\ gate' = gate]_vars
    /\ [][\A i \in DOMAIN H :
            (H[i].pc = "done" /\ H'[i] # H[i]) =>
              H'[i] = IdleH /\ tmux' = tmux /\ gate' = gate]_vars

\* C23: one invocation was dropped by the gate on the stamp of an applied
\* reflow, another found the session gone
C23_Witness ==
    \E i, j \in DOMAIN H :
      /\ EndedOnDrop(i)
      /\ gate.applied
      /\ GateDrops(H[i].now, gate.us, H[i].interval)
      /\ EndedOnGone(j)
      /\ ~tmux.exists


\* ------------------------------------------------------------ C24
\* the launcher is inside its call of _apply_live_reflow
InReflow(l) == l.pc \in {"rf_exists", "rf_count", "rf_size", "rf_layout"}

\* the positions of the launcher's reflow in the order it passes them
ReflowRank(pc) ==
    CASE pc = "rf_exists" -> 1
      [] pc = "rf_count" -> 2
      [] pc = "rf_size" -> 3
      [] pc = "rf_layout" -> 4
      [] OTHER -> 5

\* the calls of _apply_live_reflow that read the session
ReflowReads == {"has-session", "list-panes", "display-message"}

\* the session t2 differs from t1 in nothing but the named layout and the
\* places of the panes
OnlyLayoutChanged(t1, t2) ==
    /\ t2 = [t1 EXCEPT !.panes = t2.panes, !.layout = t2.layout]
    /\ t2.layout \in {"even-vertical", "even-horizontal", "tiled"}
    /\ PaneProcs(t2) = PaneProcs(t1)

\* C24: a reflow, run by a hook or by the launcher, issues one multiplexer
\* call that changes state at most, a select-layout, and it is its last call;
\* its other calls are has-session, list-panes and display-message, never
\* new-session, split-window, respawn-pane or kill-session; a step of it that
\* changes the session changes the named layout and the places of the panes
\* and nothing else; and the session holds the same panes with the same
\* processes after any number of reflows.
C24_ReflowIsOneSelectLayout ==
    /\ [](\A i \in DOMAIN H : H[i].applied => H[i].pc = "done")
    /\ [][(actor' = "hook" /\ tmux' # tmux) =>
            \E i \in DOMAIN H :
              /\ H[i].pc = "layout" /\ ~H[i].applied
              /\ H'[i].pc = "done" /\ H'[i].applied
              /\ OnlyLayoutChanged(tmux, tmux')]_vars
    /\ [][(InReflow(L) /\ actor' = "launcher") =>
            /\ ReflowRank(L'.pc) > ReflowRank(L.pc)
            /\ Len(L'.cmds) = Len(L.cmds) + 1
            /\ SubSeq(L'.cmds, 1, Len(L.cmds)) = L.cmds
            /\ IF L.pc = "rf_layout"
               THEN L'.cmds[Len(L'.cmds)] = "select-layout"
               ELSE L'.cmds[Len(L'.cmds)] \in ReflowReads /\ tmux' = tmux
            /\ tmux' # tmux => OnlyLayoutChanged(tmux, tmux')]_vars
    /\ [](tmux.exists /\ Len(tmux.panes) = Len(GateSession.panes)
           /\ \A k \in 1..Len(tmux.panes) :
                /\ tmux.panes[k].id = GateSession.panes[k].id
                /\ tmux.panes[k].cmd = GateSession.panes[k].cmd)

\* C24: after a launcher reconciled the session to another layout, a hook
\* invocation has issued its select-layout for that layout; the panes are
\* those of the build
C24_Witness ==
    \E i \in DOMAIN H :
      /\ H[i].pc = "done"
      /\ H[i].applied
      /\ H[i].layout # "vertical"
      /\ tmux.layout # "even-vertical"
      /\ PaneProcs(tmux) = PaneProcs(GateSession)


\* ------------------------------------------------------------ C25
\* the named layout for a planned grid
NameOfPlan(d) ==
    IF d[1] <= 1 THEN "even-vertical"
    ELSE IF d[2] <= 1 THEN "even-horizontal"
    ELSE "tiled"

\* C25: for --layout vertical, horizontal and tiled the named layout is
\* even-vertical, even-horizontal and tiled, whatever the pane count and the
\* window size; for a grid layout it is that of a grid the planner returns
\* for the live pane count and window size: even-vertical for cols <= 1,
\* else even-horizontal for rows <= 1, else tiled.
C25_NamedLayoutOfPlan ==
    plan.stage = "named" =>
        CASE plan.layout = "vertical" -> plan.named = "even-vertical"
          [] plan.layout = "horizontal" -> plan.named = "even-horizontal"
          [] plan.layout = "tiled" -> plan.named = "tiled"
          [] OTHER ->
               \E d \in PlanGridDims(plan.count, NormalizeLayout(plan.layout),
                                      plan.geom[1], plan.geom[2], TRUE, plan.th) :
                 plan.named = NameOfPlan(d)

\* C25: six panes in a wide window with --layout wide: the plan has two or
\* more columns and rows and the named layout is tiled
C25_Witness ==
    /\ plan.stage = "named"
    /\ plan.layout = "wide"
    /\ plan.count = 6
    /\ plan.geom = <<160, 40>>
    /\ plan.named = "tiled"
    /\ \A d \in PlanGridDims(6, "auto-wide", 160, 40, TRUE, plan.th) :
         d[1] >= 2 /\ d[2] >= 2


\* ------------------------------------------------------------ C26
\* what the stamp file holds
StampFile(g) == <<g.present, g.parses, g.us>>

\* C26: the reflow of a launcher, after a fresh build and on an existing
\* session, goes from has-session straight on to the pane count when the
\* session is there, with no gate in between, and none of its steps reads
\* the clock or touches the stamp file; a hook invocation with interval 0
\* goes from the gate straight on to the pane count, and none of its steps
\* changes what the stamp file holds.
C26_IntervalZeroSkipsTheStamp ==
    /\ [][(InReflow(L) /\ actor' = "launcher") =>
            /\ StampFile(gate') = StampFile(gate)
            /\ (L.pc = "rf_exists" /\ tmux.exists) => L'.pc = "rf_count"]_vars
    /\ [][\A i \in DOMAIN H :
            (H[i].interval = 0 /\ H[i].pc # "idle" /\ H'[i] # H[i]) =>
              /\ StampFile(gate') = StampFile(gate)
              /\ H'[i].now = 0 /\ ~H'[i].read_ok /\ ~H'[i].stamped
              /\ H[i].pc = "gate" => H'[i].pc = "count"]_vars

\* C26: an invocation with interval 0 has issued its select-layout while the
\* stamp of an earlier invocation was less than the default interval old
C26_Witness ==
    \E i \in DOMAIN H :
      /\ H[i].pc = "done"
      /\ H[i].interval = 0
      /\ H[i].applied
      /\ gate.present /\ gate.parses
      /\ GateDrops(clock, gate.us, LIVE_REFLOW_MIN_INTERVAL_MS_DEFAULT)


\* ------------------------------------------------------------ C27
\* a fresh launch is inside its try block or its except clause
FreshBuilding == L.mode = "fresh" /\ L.pc \in BuildPcs \cup {"teardown"}

\* no hook of the session is registered
NoHookSet == \A k \in 1..Len(HookNames) : ~tmux.hooks[k].set

\* C27: while a fresh launch builds or tears down, the session has no reflow
\* hook and no hook event can start a reflow; a fresh launch that has issued
\* set-hook has issued every call of its build before, none of which failed:
\* new-session, one split for every further slot, one respawn-pane per slot
\* of a grid, and select-pane; a fresh launch whose build failed or was
\* interrupted has issued no set-hook and leaves no hook registered.
C27_HooksAfterBuild ==
    /\ [](FreshBuilding =>
            /\ NoHookSet
            /\ \A i \in DOMAIN H : ~ENABLED HookFire(i))
    /\ []((L.mode = "fresh" /\ "set-hook" \in Issued(L)) =>
            /\ L.at \notin BuildPcs
            /\ "kill-session" \notin Issued(L)
            /\ TimesIssued(L, "new-session") = 1
            /\ TimesIssued(L, "select-pane") = 1
            /\ IF IsLinear(L)
               THEN TimesIssued(L, "split-window") = Len(L.monitors) - 1
               ELSE /\ TimesIssued(L, "split-window") = L.total_slots - 1
                    /\ TimesIssued(L, "respawn-pane") = L.total_slots)
    /\ []((L.mode = "fresh" /\ L.pc = "done" /\ L.at \in BuildPcs) =>
            /\ "set-hook" \notin Issued(L)
            /\ NoHookSet)

\* C27: a fresh grid launch of three monitors with live reflow has built its
\* panes, bound them and registered both hooks; a hook event can now start a
\* reflow
C27_Witness ==
    /\ L.mode = "fresh"
    /\ ~IsLinear(L)
    /\ L.pc = "rf_exists"
    /\ Len(L.monitors) = 3
    /\ TimesIssued(L, "respawn-pane") = L.total_slots
    /\ TimesIssued(L, "set-hook") = 2
    /\ \A k \in 1..Len(HookNames) : tmux.hooks[k].set
    /\ ENABLED HookFire(1)


\* ------------------------------------------------------------ C28
\* C28 as stated: a reflow attempt for another session name is dropped only
\* on a stamp written for that name, never on the stamp of an applied reflow
\* of the model's session
C28_GatePerSession ==
    (/\ O.pc = "done"
     /\ O.dropped
     /\ O.name # ThisSession
     /\ gate.applied
     /\ gate.applied_at = gate.by_now)
    => O.read_by = O.name


\* ------------------------------------------------------------ C29
\* a fresh linear build has passed its last call, select-pane
LinearBuilt ==
    /\ L.mode = "fresh"
    /\ IsLinear(L)
    /\ L.pc \in {"hook", "rf_exists", "rf_count", "rf_size", "rf_layout", "attach"}

\* the panes of session t that run command cmd
PanesRunning(t, cmd) == {i \in 1..Len(t.panes) : t.panes[i].cmd = cmd}

\* C29: after a successful fresh build in a linear mode with N monitors the
\* launcher has issued one new-session and N - 1 split-window; each
\* successful split added one pane running the command of the next monitor
\* and left the other panes' processes alone; with no pane ended from outside
\* the session holds N panes, the initial pane running the first monitor's
\* command and one pane for every requested monitor; and the window's named
\* layout is even-vertical for vertical, even-horizontal for horizontal and
\* tiled for tiled.
C29_LinearBuild ==
    /\ [](LinearBuilt =>
            /\ TimesIssued(L, "new-session") = 1
            /\ TimesIssued(L, "split-window") = Len(L.monitors) - 1
            /\ TimesIssued(L, "select-layout") >=
                 IF L.layout = "tiled" THEN Len(L.monitors) ELSE 1
            /\ env_kills = 0 =>
                 /\ Len(tmux.panes) = Len(L.monitors)
                 /\ \A m \in 1..Len(L.monitors) :
                      Cardinality(PanesRunning(tmux, MonitorCmd(L.monitors[m]))) = 1
                 /\ \E i \in PanesRunning(tmux, MonitorCmd(L.monitors[1])) :
                      tmux.panes[i].id = FirstPane(0, 0, HOLD_CMD).id
                 /\ tmux.layout = CASE L.layout = "vertical" -> "even-vertical"
                                     [] L.layout = "horizontal" -> "even-horizontal"
                                     [] OTHER -> "tiled")
    /\ [][(L.pc = "lin_split" /\ actor' = "launcher" /\ L'.pc # "teardown"
           /\ L'.pc # "done") =>
            /\ Len(tmux'.panes) = Len(tmux.panes) + 1
            /\ \E j \in 1..Len(tmux'.panes) :
                 /\ tmux'.panes[j].cmd = MonitorCmd(L.monitors[L.k])
                 /\ tmux'.panes[j].id \notin IdSet(tmux.panes)
                 /\ \A i \in 1..Len(tmux.panes) :
                      \E i2 \in 1..Len(tmux'.panes) :
                        /\ i2 # j
                        /\ tmux'.panes[i2].id = tmux.panes[i].id
                        /\ tmux'.panes[i2].cmd = tmux.panes[i].cmd]_vars

\* C29: three monitors were launched with --layout horizontal, the build
\* succeeded and the session holds three panes side by side
C29_Witness ==
    /\ LinearBuilt
    /\ L.layout = "horizontal"
    /\ Len(L.monitors) = 3
    /\ Len(tmux.panes) = 3
    /\ env_kills = 0
    /\ tmux.layout = "even-horizontal"
    /\ \A i \in 1..3 : tmux.panes[i].top = 0


\* ------------------------------------------------------------ C30
\* pct is the whole number nearest to 100 / r, the even one of two equally
\* near
NearestPercent(pct, r) ==
    LET twice == 2 * (IF r * pct >= 100 THEN r * pct - 100 ELSE 100 - r * pct)
    IN  /\ twice <= r
        /\ twice = r => pct % 2 = 0

\* a share <<n, d>> is within half a percent of the whole of 1 / k
NearEqualShare(share, k) ==
    LET diff == IF share[1] * k >= share[2] THEN share[1] * k - share[2]
                ELSE share[2] - share[1] * k
    IN  200 * diff <= share[2] * k

RECURSIVE RatSum(_)
RatSum(shares) ==
    IF shares = <<>> THEN <<0, 1>>
    ELSE LET rest == RatSum(Tail(shares))
             h == Head(shares)
             g == GCD(h[2], rest[2])
         IN  RatReduce(<<h[1] * (rest[2] \div g) + rest[1] * (h[2] \div g),
                         (h[2] \div g) * rest[2]>>)

\* C30: _split_equal with parts = k issues no split for k <= 1 and k - 1
\* splits otherwise, every one on the pane and in the direction it was given;
\* the j-th has the percentage of r = k - j + 1: the whole number nearest to
\* 100 / r, within 1..99, so the last one has 50; on a multiplexer that gives
\* the new pane exactly that percentage of the target, the target is left in
\* k regions that make up the whole, each within half a percent of the whole
\* of the k-th part, and all equal for k = 2.
C30_SplitEqual ==
    plan.stage = "split" =>
        LET k == plan.parts
            c == plan.calls
        IN  /\ k <= 1 => c = <<>>
            /\ k >= 2 =>
                 /\ Len(c) = k - 1
                 /\ \A j \in 1..(k - 1) :
                      /\ c[j].target = c[1].target
                      /\ c[j].direction = c[1].direction
                      /\ c[j].pct \in 1..99
                      /\ NearestPercent(c[j].pct, k - j + 1)
                 /\ c[k - 1].pct = 50
            /\ k <= ShareParts =>
                 /\ Len(plan.regions) = Len(c) + 1
                 /\ RatSum(plan.regions) = <<1, 1>>
                 /\ k >= 1 => \A i \in 1..Len(plan.regions) :
                               NearEqualShare(plan.regions[i], k)
                 /\ k = 2 => plan.regions[1] = plan.regions[2]

\* C30: seven parts: six splits of 14, 17, 20, 25, 33 and 50 percent, and
\* regions that are not all equal
C30_Witness ==
    /\ plan.stage = "split"
    /\ plan.parts = 7
    /\ [j \in 1..6 |-> plan.calls[j].pct] = <<14, 17, 20, 25, 33, 50>>
    /\ Len(plan.regions) = 7
    /\ plan.regions[1] # plan.regions[7]

============================================================================
